---- MODULE Spec2Model ----
(***************************************************************************)
(* Knot server: the Merge and MergeCheck HTTP handlers of                  *)
(* knotserver (Handle.Merge, Handle.MergeCheck) on top of the patch-merge  *)
(* engine of package knotserver/git.  The handlers are translated from     *)
(* src/knotserver/util.go; the engine (git.Open, MergeWithOptions,         *)
(* MergeCheck) and the response helpers (writeJSON, writeError, notFound,  *)
(* writeConflict) follow sections 4.1, 4.4, 5, 6 and 7 of the design.      *)
(***************************************************************************)
EXTENDS Integers, Sequences, FiniteSets, TLC

\* ------------------------------------------------------------------ bounds

\* Requests issued in one behaviour of the concurrent specification.
MaxRequests == 2

\* Lines of a text blob.
NLines == 2

\* ------------------------------------------------------------- vocabulary

Procs == {"w1", "w2"}

SeqProc == "w1"

Paths == {"f", "g"}

\* A text blob is a sequence of NLines lines drawn from LineVals; a NUL line is 0.
LineVals == {1, 2}

Absent == <<>>

TextBlobs == [1..NLines -> LineVals]

BinBlob == [i \in 1..NLines |-> 0]

Blobs == TextBlobs \cup {BinBlob}

Branches == {"main", "dev"}

\* Branch names a request can carry: existing ones, a missing one, and none.
BranchNames == Branches \cup {"nope", ""}

NoCommit == 0

None == "none"

StatusOK == 200

StatusBadRequest == 400

StatusNotFound == 404

StatusInternalServerError == 500

\* Binary detection: a NUL byte within the sampled prefix.
IsBinary(b) == \E i \in 1..Len(b) : b[i] = 0

\* ----------------------------------------------------------------- patches

Add(path, blob) ==
    [kind |-> "add", path |-> path, line |-> 0, old |-> 0, new |-> 0, blob |-> blob]

Modify(path, line, old, new) ==
    [kind |-> "modify", path |-> path, line |-> line, old |-> old, new |-> new,
     blob |-> Absent]

Delete(path, pre) ==
    [kind |-> "delete", path |-> path, line |-> 0, old |-> 0, new |-> 0, blob |-> pre]

FileOps(path) ==
    {Add(path, b) : b \in TextBlobs}
        \cup {Modify(path, i, o, n) : <<i, o, n>> \in
                {t \in (1..NLines) \X LineVals \X LineVals : t[2] # t[3]}}
        \cup {Delete(path, b) : b \in TextBlobs}

\* Patch text: well-formed text decodes to its per-file hunks, anything else
\* does not decode.
PatchText(files) == [ok |-> TRUE, files |-> files]

Malformed == [ok |-> FALSE, files |-> <<>>]

\* The patches of the concurrent specification.
PA == PatchText(<<Modify("f", 1, 1, 2)>>)

PD == PatchText(<<Delete("g", [i \in 1..NLines |-> 1])>>)

PM == PatchText(<<Modify("f", 1, 1, 2), Modify("g", 1, 1, 2)>>)

Patches == {Malformed, PA, PD, PM}

\* Every patch over one or two distinct paths, for the single-worker specification.
ModifyOps(path) == {o \in FileOps(path) : o.kind = "modify"}

AllPatches ==
    {Malformed}
        \cup {PatchText(<<o>>) : o \in FileOps("f") \cup FileOps("g")}
        \cup {PatchText(<<o1, o2>>) : <<o1, o2>> \in
                (FileOps("f") \X ModifyOps("g")) \cup (ModifyOps("g") \X ModifyOps("f"))}

AllTrees == [Paths -> Blobs \cup {Absent}]

InitTree == [p \in Paths |-> [i \in 1..NLines |-> 1]]

\* Tree of the root commit: "g" is added by the second commit.
RootTree == [p \in Paths |-> IF p = "f" THEN [i \in 1..NLines |-> 1] ELSE Absent]

EmptyTree == [p \in Paths |-> Absent]

\* ------------------------------------------------------------------- state

VARIABLES
    refs,            \* branch name -> commit id
    blobs,           \* blob objects in the store
    trees,           \* tree objects in the store
    commits,         \* commit objects in the store: [id, parent, tree]
    nextId,          \* id of the next commit object (its hash is fresh: it holds a timestamp)
    lock,            \* holder of the repository's exclusive section, or None
    pc,              \* position of each worker
    req,             \* decoded request of each worker
    eng,             \* engine state of each worker's request
    resp,            \* response written by each worker
    conflictStatus,  \* status code writeConflict sets
    reqCount,        \* requests issued so far
    merged,          \* history: branch -> commits a Merge moved the branch to
    garbage,         \* history: commit objects written by attempts that failed
    cleanChecks,     \* history: [patch, branch, tip] of conflict-free MergeChecks
    disk,            \* repository path under the scan root -> the bare repository there
    acl,             \* permission entries of the enforcer: [did, repo]
    call,            \* the repository request served last, with what the handler computed
    reply,           \* the response written to it
    calls,           \* repository requests served so far
    knot,            \* the knot's initialization state, key store and Init/Keys workers
    appview,         \* the appview's database, enforcer and the request it serves
    issues,          \* the appview's issue tables and the NewIssue transactions
    ingest,          \* the jetstream ingester: saved cursor and the event handled
    probe            \* a repository name handed to validateRepoName

mergeVars == <<refs, blobs, trees, commits, nextId, lock, pc, req, eng, resp,
               conflictStatus, reqCount, merged, garbage, cleanChecks>>

repoVars == <<disk, acl, call, reply, calls>>

sideVars == <<knot, appview, issues, ingest, probe>>

vars == <<mergeVars, repoVars, sideVars>>

store == <<blobs, trees, commits, nextId>>

history == <<merged, garbage, cleanChecks>>

\* decoded: the JSON body decoded into patch and branch.
NoReq == [mode |-> None, decoded |-> FALSE, patch |-> Malformed, branch |-> ""]

Nil == [kind |-> "nil", Conflicts |-> <<>>, Message |-> ""]

NoEng == [tip |-> NoCommit, tree |-> EmptyTree, commit |-> NoCommit, err |-> Nil,
          stages |-> <<>>, wrote |-> FALSE, moved |-> FALSE]

NoBody == [is_conflicted |-> FALSE, conflicts |-> <<>>, message |-> ""]

NoResp == [status |-> 0, kind |-> None, body |-> NoBody]

\* A path string: whether it starts with a separator, and its components.
Str(abs, comps) == [abs |-> abs, comps |-> comps]

EmptyStr == Str(FALSE, <<>>)

NoCall == [op |-> None]

\* No repository request has been served and the scan root holds no repository.
RepoIdle ==
    /\ disk = <<>>
    /\ acl = {}
    /\ call = NoCall
    /\ reply = NoResp
    /\ calls = 0

Idle == [op |-> None]

\* The components outside the knot's repository handlers are not running.
SideIdle ==
    /\ knot = Idle
    /\ appview = Idle
    /\ issues = Idle
    /\ ingest = Idle
    /\ probe = Idle

\* ------------------------------------------------------------ object store

CommitOf(id) == CHOOSE c \in commits : c.id = id

TreeAt(id) == CommitOf(id).tree

HasCommit(id) == \E c \in commits : c.id = id

BlobsOf(t) == {t[p] : p \in Paths} \ {Absent}

RECURSIVE Ancestors(_)
\* The commits reachable from id through parents, id included.
Ancestors(id) ==
    IF id = NoCommit \/ ~HasCommit(id) THEN {}
    ELSE {id} \cup Ancestors(CommitOf(id).parent)

\* ------------------------------------------------------------------ engine

\* Main-branch heuristic: the first configured candidate that is a branch.
FindMainBranch(names) ==
    IF "main" \in names THEN "main"
    ELSE IF "master" \in names THEN "master"
    ELSE CHOOSE b \in names : TRUE

\* git.Open: resolve ref (empty: the main branch) to a commit.
Open(ref) ==
    IF ref = "" THEN [ok |-> TRUE, commit |-> refs[FindMainBranch(DOMAIN refs)]]
    ELSE IF ref \in DOMAIN refs THEN [ok |-> TRUE, commit |-> refs[ref]]
    ELSE [ok |-> FALSE, commit |-> NoCommit]

ParsePatch(text) == text

\* Mutant: a hunk's context is compared at the first line, not at the hunk's.
ClassifyFirstLine(op, t) ==
    LET cur == t[op.path] IN
    CASE op.kind = "delete" ->
           IF cur = Absent THEN "path-missing"
           ELSE IF cur # op.blob THEN "delete-modify"
           ELSE "ok"
      [] op.kind = "add" ->
           IF cur # Absent /\ cur # op.blob THEN "add-add" ELSE "ok"
      [] OTHER ->
           IF cur = Absent THEN "path-missing"
           ELSE IF IsBinary(cur) THEN "binary-patch"
           ELSE IF cur[1] # op.old THEN "context-mismatch"
           ELSE "ok"

\* Mutant: a deletion is applied without comparing the pre-image.
ClassifyBlindDelete(op, t) ==
    LET cur == t[op.path] IN
    CASE op.kind = "delete" ->
           IF cur = Absent THEN "path-missing" ELSE "ok"
      [] op.kind = "add" ->
           IF cur # Absent /\ cur # op.blob THEN "add-add" ELSE "ok"
      [] OTHER ->
           IF cur = Absent THEN "path-missing"
           ELSE IF IsBinary(cur) THEN "binary-patch"
           ELSE IF cur[op.line] # op.old THEN "context-mismatch"
           ELSE "ok"

\* Outcome of one file of the patch against tree t.
Classify(op, t) ==
    LET cur == t[op.path] IN
    CASE op.kind = "delete" ->
           IF cur = Absent THEN "path-missing"
           ELSE IF cur # op.blob THEN "delete-modify"
           ELSE "ok"
      [] op.kind = "add" ->
           IF cur # Absent /\ cur # op.blob THEN "add-add" ELSE "ok"
      [] OTHER ->
           IF cur = Absent THEN "path-missing"
           ELSE IF IsBinary(cur) THEN "binary-patch"
           ELSE IF cur[op.line] # op.old THEN "context-mismatch"
           ELSE "ok"

Conflict(op, t) == [Filename |-> op.path, Reason |-> Classify(op, t)]

\* ApplyHunks: the conflicts of every touched file, in patch order.
ApplyHunks(files, t) ==
    LET all == [i \in 1..Len(files) |-> Conflict(files[i], t)]
    IN SelectSeq(all, LAMBDA c : c.Reason # "ok")

ApplyFile(op, t) ==
    CASE op.kind = "delete" -> [t EXCEPT ![op.path] = Absent]
      [] op.kind = "add" -> [t EXCEPT ![op.path] = op.blob]
      [] OTHER -> [t EXCEPT ![op.path] = [@ EXCEPT ![op.line] = op.new]]

RECURSIVE Patched(_, _)
\* The tree after applying the patch's changes file by file.
Patched(files, t) ==
    IF files = <<>> THEN t
    ELSE Patched(Tail(files), ApplyFile(Head(files), t))

ErrMerge(conflicts) ==
    [kind |-> "ErrMerge", Conflicts |-> conflicts,
     Message |-> "patch cannot be applied cleanly"]

ErrInvalidPatch == [kind |-> "InvalidPatch", Conflicts |-> <<>>, Message |-> ""]

ErrReferenceNotFound == [kind |-> "ReferenceNotFound", Conflicts |-> <<>>, Message |-> ""]

ErrIO == [kind |-> "IOError", Conflicts |-> <<>>, Message |-> ""]

\* ------------------------------------------------------- response helpers

writeJSON(data) == [status |-> StatusOK, kind |-> "json", body |-> data]

writeError(status) == [status |-> status, kind |-> "error", body |-> NoBody]

notFound == writeError(StatusNotFound)

writeConflict(data) == [status |-> conflictStatus, kind |-> "json", body |-> data]

WriteHeader(status) == [status |-> status, kind |-> "empty", body |-> NoBody]

\* ---------------------------------------------------------------- handlers

\* Mutant: only the first conflict is copied.
ConflictInfosFirst(conflicts) ==
    [i \in 1..(IF conflicts = <<>> THEN 0 ELSE 1) |->
        [filename |-> conflicts[i].Filename, reason |-> conflicts[i].Reason]]

\* The loop copying the engine's conflicts into the response.
ConflictInfos(conflicts) ==
    [i \in 1..Len(conflicts) |->
        [filename |-> conflicts[i].Filename, reason |-> conflicts[i].Reason]]

\* Handle.Merge: the response for MergeWithOptions' result.
MergeResponse(err) ==
    IF err.kind = "nil" THEN WriteHeader(StatusOK)
    ELSE IF err.kind = "ErrMerge"
    THEN writeConflict([is_conflicted |-> TRUE,
                        conflicts |-> ConflictInfos(err.Conflicts),
                        message |-> err.Message])
    ELSE writeError(StatusBadRequest)

\* Mutant: a conflict is answered like a clean check.
MergeCheckResponseClean(err) ==
    IF err.kind \in {"nil", "ErrMerge"} THEN writeJSON(NoBody)
    ELSE writeError(StatusInternalServerError)

\* Mutant: the conflict body is written with writeJSON.
MergeCheckResponseJSON(err) ==
    IF err.kind = "nil" THEN writeJSON(NoBody)
    ELSE IF err.kind = "ErrMerge"
    THEN writeJSON([is_conflicted |-> TRUE,
                    conflicts |-> [i \in 1..Len(err.Conflicts) |->
                        [filename |-> err.Conflicts[i].Filename,
                         reason |-> err.Conflicts[i].Reason]],
                    message |-> err.Message])
    ELSE writeError(StatusInternalServerError)

\* Handle.MergeCheck: the response for git.MergeCheck's result.
MergeCheckResponse(err) ==
    IF err.kind = "nil" THEN writeJSON(NoBody)
    ELSE IF err.kind = "ErrMerge"
    THEN writeConflict([is_conflicted |-> TRUE,
                        conflicts |-> ConflictInfos(err.Conflicts),
                        message |-> err.Message])
    ELSE writeError(StatusInternalServerError)

\* ------------------------------------------------------------------ actions

Files(p) == ParsePatch(req[p].patch).files

Visit(e, stage) == [e EXCEPT !.stages = Append(@, stage)]

\* The engine call of worker p returns err: the handler writes its response,
\* and the exclusive section, if p holds it, is left.
Return(p, e, err) ==
    /\ eng' = [eng EXCEPT ![p] = [e EXCEPT !.err = err]]
    /\ resp' = [resp EXCEPT ![p] =
                   IF req[p].mode = "merge" THEN MergeResponse(err)
                   ELSE MergeCheckResponse(err)]
    /\ pc' = [pc EXCEPT ![p] = "done"]
    /\ lock' = IF lock = p THEN None ELSE lock
    /\ cleanChecks' =
           IF req[p].mode = "check" /\ resp'[p].status = StatusOK
              /\ resp'[p].kind = "json" /\ ~resp'[p].body.is_conflicted
           THEN cleanChecks \cup
                    {[patch |-> req[p].patch, branch |-> req[p].branch, tip |-> e.tip]}
           ELSE cleanChecks

\* Handle.Merge: decode the JSON body.
MergeDecode(p, PS, BS) ==
    /\ pc[p] = "idle"
    /\ reqCount < MaxRequests
    /\ reqCount' = reqCount + 1
    /\ \/ /\ req' = [req EXCEPT ![p] = [NoReq EXCEPT !.mode = "merge"]]
          /\ resp' = [resp EXCEPT ![p] = writeError(StatusBadRequest)]
          /\ pc' = [pc EXCEPT ![p] = "done"]
       \/ \E patch \in PS, branch \in BS :
            /\ req' = [req EXCEPT ![p] =
                          [mode |-> "merge", decoded |-> TRUE, patch |-> patch,
                           branch |-> branch]]
            /\ pc' = [pc EXCEPT ![p] = "open"]
            /\ resp' = resp
    /\ UNCHANGED <<refs, store, lock, eng, conflictStatus, history>>
    /\ UNCHANGED <<repoVars, sideVars>>

\* Mutant: the engine is called whether or not the repository opened.
MergeOpenUnchecked(p) ==
    /\ pc[p] = "open"
    /\ req[p].mode = "merge"
    /\ pc' = [pc EXCEPT ![p] = "lock"]
    /\ UNCHANGED <<refs, store, lock, req, eng, resp, conflictStatus, reqCount, history>>
    /\ UNCHANGED <<repoVars, sideVars>>

\* Handle.Merge: git.Open(path, branch), 404 when it fails.
MergeOpen(p) ==
    /\ pc[p] = "open"
    /\ req[p].mode = "merge"
    /\ IF Open(req[p].branch).ok
       THEN /\ pc' = [pc EXCEPT ![p] = "lock"]
            /\ resp' = resp
       ELSE /\ pc' = [pc EXCEPT ![p] = "done"]
            /\ resp' = [resp EXCEPT ![p] = notFound]
    /\ UNCHANGED <<refs, store, lock, req, eng, conflictStatus, reqCount, history>>
    /\ UNCHANGED <<repoVars, sideVars>>

\* Handle.MergeCheck: decode the JSON body.
MergeCheckDecode(p, PS, BS) ==
    /\ pc[p] = "idle"
    /\ reqCount < MaxRequests
    /\ reqCount' = reqCount + 1
    /\ \/ /\ req' = [req EXCEPT ![p] = [NoReq EXCEPT !.mode = "check"]]
          /\ resp' = [resp EXCEPT ![p] = writeError(StatusBadRequest)]
          /\ pc' = [pc EXCEPT ![p] = "done"]
       \/ \E patch \in PS, branch \in BS :
            /\ req' = [req EXCEPT ![p] =
                          [mode |-> "check", decoded |-> TRUE, patch |-> patch,
                           branch |-> branch]]
            /\ pc' = [pc EXCEPT ![p] = "open"]
            /\ resp' = resp
    /\ UNCHANGED <<refs, store, lock, eng, conflictStatus, history>>
    /\ UNCHANGED <<repoVars, sideVars>>

\* Handle.MergeCheck: git.Open(path, branch), 404 when it fails.
MergeCheckOpen(p) ==
    /\ pc[p] = "open"
    /\ req[p].mode = "check"
    /\ IF Open(req[p].branch).ok
       THEN /\ pc' = [pc EXCEPT ![p] = "parse"]
            /\ resp' = resp
       ELSE /\ pc' = [pc EXCEPT ![p] = "done"]
            /\ resp' = [resp EXCEPT ![p] = notFound]
    /\ UNCHANGED <<refs, store, lock, req, eng, conflictStatus, reqCount, history>>
    /\ UNCHANGED <<repoVars, sideVars>>

\* Mutant: the section is entered whoever holds it.
LockNotExclusive(p) ==
    /\ pc[p] = "lock"
    /\ lock' = p
    /\ pc' = [pc EXCEPT ![p] = "parse"]
    /\ UNCHANGED <<refs, store, req, eng, resp, conflictStatus, reqCount, history>>
    /\ UNCHANGED <<repoVars, sideVars>>

\* Apply mode enters the repository's exclusive section.
Lock(p) ==
    /\ pc[p] = "lock"
    /\ lock = None
    /\ lock' = p
    /\ pc' = [pc EXCEPT ![p] = "parse"]
    /\ UNCHANGED <<refs, store, req, eng, resp, conflictStatus, reqCount, history>>
    /\ UNCHANGED <<repoVars, sideVars>>

\* ParsePatch: malformed patch text fails fast with InvalidPatch.
EngineParsePatch(p) ==
    /\ pc[p] = "parse"
    /\ LET e == Visit(eng[p], "ParsePatch") IN
       IF ParsePatch(req[p].patch).ok
       THEN /\ eng' = [eng EXCEPT ![p] = e]
            /\ pc' = [pc EXCEPT ![p] = "resolve"]
            /\ UNCHANGED <<resp, lock, cleanChecks>>
       ELSE Return(p, e, ErrInvalidPatch)
    /\ UNCHANGED <<refs, store, req, conflictStatus, reqCount, merged, garbage>>
    /\ UNCHANGED <<repoVars, sideVars>>

\* ResolveTarget: load the tip of the named branch.
ResolveTarget(p) ==
    /\ pc[p] = "resolve"
    /\ LET e == Visit(eng[p], "ResolveTarget") IN
       IF req[p].branch \in DOMAIN refs
       THEN /\ eng' = [eng EXCEPT ![p] = [e EXCEPT !.tip = refs[req[p].branch]]]
            /\ pc' = [pc EXCEPT ![p] = "apply"]
            /\ UNCHANGED <<resp, lock, cleanChecks>>
       ELSE Return(p, e, ErrReferenceNotFound)
    /\ UNCHANGED <<refs, store, req, conflictStatus, reqCount, merged, garbage>>
    /\ UNCHANGED <<repoVars, sideVars>>

\* Mutant: check mode goes on to write like apply mode.
NeverStopsAfterApply(mode) == FALSE

\* Check mode stops after ApplyHunks.
StopsAfterApply(mode) == mode = "check"

\* ApplyHunks: collect the conflicts of every touched file.
EngineApplyHunks(p) ==
    /\ pc[p] = "apply"
    /\ LET e == Visit(eng[p], "ApplyHunks")
           conflicts == ApplyHunks(Files(p), TreeAt(eng[p].tip))
       IN IF conflicts # <<>> THEN Return(p, e, ErrMerge(conflicts))
          ELSE IF StopsAfterApply(req[p].mode) THEN Return(p, e, Nil)
          ELSE /\ eng' = [eng EXCEPT ![p] =
                             [e EXCEPT !.tree = Patched(Files(p), TreeAt(eng[p].tip))]]
               /\ pc' = [pc EXCEPT ![p] = "objects"]
               /\ UNCHANGED <<resp, lock, cleanChecks>>
    /\ UNCHANGED <<refs, store, req, conflictStatus, reqCount, merged, garbage>>
    /\ UNCHANGED <<repoVars, sideVars>>

\* WriteCommit, first part: the blobs and the tree of the patched content.
\* A failure leaves what was written so far, which nothing references.
WriteObjects(p) ==
    /\ pc[p] = "objects"
    /\ LET e == [Visit(eng[p], "WriteCommit") EXCEPT !.wrote = TRUE] IN
       \/ /\ blobs' = blobs \cup BlobsOf(eng[p].tree)
          /\ trees' = trees \cup {eng[p].tree}
          /\ eng' = [eng EXCEPT ![p] = e]
          /\ pc' = [pc EXCEPT ![p] = "commit"]
          /\ UNCHANGED <<resp, lock, cleanChecks>>
       \/ /\ blobs' = blobs \cup BlobsOf(eng[p].tree)
          /\ trees' = trees
          /\ Return(p, e, ErrIO)
       \/ /\ UNCHANGED <<blobs, trees>>
          /\ Return(p, Visit(eng[p], "WriteCommit"), ErrIO)
    /\ UNCHANGED <<refs, commits, nextId, req, conflictStatus, reqCount, merged, garbage>>
    /\ UNCHANGED <<repoVars, sideVars>>

\* The commit object a merge writes: its parent is the branch tip.
NewCommit(id, tip, tree) == [id |-> id, parent |-> tip, tree |-> tree]

\* Mutant: the ref update is reached although the commit object was not written.
WriteCommitLost(p) ==
    /\ pc[p] = "commit"
    /\ nextId' = nextId + 1
    /\ eng' = [eng EXCEPT ![p].commit = nextId]
    /\ pc' = [pc EXCEPT ![p] = "ref"]
    /\ \/ commits' = commits \cup {NewCommit(nextId, eng[p].tip, eng[p].tree)}
       \/ commits' = commits
    /\ UNCHANGED <<refs, blobs, trees, req, resp, lock, conflictStatus, reqCount, history>>
    /\ UNCHANGED <<repoVars, sideVars>>

\* WriteCommit, second part: the commit object.
WriteCommit(p) ==
    /\ pc[p] = "commit"
    /\ \/ /\ commits' = commits \cup {NewCommit(nextId, eng[p].tip, eng[p].tree)}
          /\ nextId' = nextId + 1
          /\ eng' = [eng EXCEPT ![p].commit = nextId]
          /\ pc' = [pc EXCEPT ![p] = "ref"]
          /\ UNCHANGED <<resp, lock, cleanChecks>>
       \/ /\ UNCHANGED <<commits, nextId>>
          /\ Return(p, eng[p], ErrIO)
    /\ UNCHANGED <<refs, blobs, trees, req, conflictStatus, reqCount, merged, garbage>>
    /\ UNCHANGED <<repoVars, sideVars>>

\* Mutant: a failed ref update leaves the ref moved.
UpdateRefTorn(p) ==
    /\ pc[p] = "ref"
    /\ refs' = [refs EXCEPT ![req[p].branch] = eng[p].commit]
    /\ \/ /\ merged' = [merged EXCEPT ![req[p].branch] = @ \cup {eng[p].commit}]
          /\ garbage' = garbage
          /\ Return(p, [eng[p] EXCEPT !.moved = TRUE], Nil)
       \/ /\ merged' = merged
          /\ garbage' = garbage \cup {eng[p].commit}
          /\ Return(p, eng[p], ErrIO)
    /\ UNCHANGED <<store, req, conflictStatus, reqCount>>
    /\ UNCHANGED <<repoVars, sideVars>>

\* The ref update: atomic, and the last step of a merge.
UpdateRef(p) ==
    /\ pc[p] = "ref"
    /\ \/ /\ refs' = [refs EXCEPT ![req[p].branch] = eng[p].commit]
          /\ merged' = [merged EXCEPT ![req[p].branch] = @ \cup {eng[p].commit}]
          /\ garbage' = garbage
          /\ Return(p, [eng[p] EXCEPT !.moved = TRUE], Nil)
       \/ /\ UNCHANGED <<refs, merged>>
          /\ garbage' = garbage \cup {eng[p].commit}
          /\ Return(p, eng[p], ErrIO)
    /\ UNCHANGED <<store, req, conflictStatus, reqCount>>
    /\ UNCHANGED <<repoVars, sideVars>>

\* The response is delivered and the worker takes the next request.
Finish(p) ==
    /\ pc[p] = "done"
    /\ pc' = [pc EXCEPT ![p] = "idle"]
    /\ req' = [req EXCEPT ![p] = NoReq]
    /\ eng' = [eng EXCEPT ![p] = NoEng]
    /\ resp' = [resp EXCEPT ![p] = NoResp]
    /\ UNCHANGED <<refs, store, lock, conflictStatus, reqCount, history>>
    /\ UNCHANGED <<repoVars, sideVars>>

\* ---------------------------------------------------------- specifications

\* The merge handlers have served nothing; the store holds two commits.
MergeIdle(tipTree) ==
    /\ commits = {NewCommit(1, NoCommit, RootTree), NewCommit(2, 1, tipTree)}
    /\ trees = {RootTree, tipTree}
    /\ blobs = BlobsOf(RootTree) \cup BlobsOf(tipTree)
    /\ nextId = 3
    /\ refs = [b \in Branches |-> IF b = "main" THEN 2 ELSE 1]
    /\ lock = None
    /\ pc = [p \in Procs |-> "idle"]
    /\ req = [p \in Procs |-> NoReq]
    /\ eng = [p \in Procs |-> NoEng]
    /\ resp = [p \in Procs |-> NoResp]
    /\ reqCount = 0
    /\ merged = [b \in Branches |-> {}]
    /\ garbage = {}
    /\ cleanChecks = {}

InitWith(tipTree) ==
    /\ MergeIdle(tipTree)
    /\ conflictStatus \in {StatusOK, StatusBadRequest}
    /\ RepoIdle
    /\ SideIdle

Init == InitWith(InitTree)

Step(p, PS, BS) ==
    \/ MergeDecode(p, PS, BS)
    \/ MergeOpen(p)
    \/ MergeCheckDecode(p, PS, BS)
    \/ MergeCheckOpen(p)
    \/ Lock(p)
    \/ EngineParsePatch(p)
    \/ ResolveTarget(p)
    \/ EngineApplyHunks(p)
    \/ WriteObjects(p)
    \/ WriteCommit(p)
    \/ UpdateRef(p)

Next == \E p \in Procs : Step(p, Patches, BranchNames) \/ Finish(p)

\* Concurrent workers, each serving one request after another.
Spec == Init /\ [][Next]_vars

SeqBranchNames == {"main", "nope"}

InitSeq == \E t \in AllTrees : InitWith(t)

NextSeq == Step(SeqProc, AllPatches, SeqBranchNames)

\* One worker serving one request, for every branch tip tree and every patch.
SpecSeq == InitSeq /\ [][NextSeq]_vars

\* ------------------------------------------------------------- properties

InEngine == {"parse", "resolve", "apply", "objects", "commit", "ref"}

\* Worker p is inside the section "read tip -> apply -> write ref" of a Merge.
InSection(p) == req[p].mode = "merge" /\ pc[p] \in InEngine

\* The attempt of worker p visited the stage.
Reached(p, stage) == \E i \in 1..Len(eng[p].stages) : eng[p].stages[i] = stage

\* Worker p's request ended and its response is written.
Ended(p, mode) == pc[p] = "done" /\ req[p].mode = mode /\ req[p].decoded

\* C1: two concurrent apply-mode Merge requests exclude each other over the
\* whole section "read branch tip -> apply patch -> write ref": at most one
\* worker is inside it, the tip it read is still the branch's tip while it is
\* inside, and every commit a Merge moved a branch to stays in the branch's
\* history (no lost update).
MergeMutualExclusion ==
    /\ \A p, q \in Procs : InSection(p) /\ InSection(q) => p = q
    /\ \A p \in Procs :
         InSection(p) /\ pc[p] \in {"apply", "objects", "commit", "ref"}
            => eng[p].tip = refs[req[p].branch]
    /\ \A b \in Branches : merged[b] \subseteq Ancestors(refs[b])

\* Both workers' Merge requests on one branch succeeded, the second on top of
\* the first.
BothMergesInHistory ==
    \E p, q \in Procs :
        /\ p # q
        /\ Ended(p, "merge") /\ Ended(q, "merge")
        /\ req[p].branch = req[q].branch
        /\ eng[p].moved /\ eng[q].moved
        /\ eng[q].tip = eng[p].commit
        /\ {eng[p].commit, eng[q].commit} \subseteq Ancestors(refs[req[p].branch])

\* C2: a Merge request that ends in any outcome other than Committed leaves
\* the branch ref as it was: a ref changes only in the step in which a Merge
\* on that branch ends Committed.
MergeFailureKeepsRef ==
    [][\A b \in Branches :
          refs'[b] # refs[b] =>
             \E p \in Procs :
                /\ req[p].mode = "merge" /\ req[p].branch = b
                /\ pc[p] = "ref" /\ pc'[p] = "done"
                /\ eng'[p].err = Nil
                /\ resp'[p].status = StatusOK
                /\ refs'[b] = eng[p].commit]_vars

\* Merge requests ended with a conflict and with an I/O failure of the ref
\* update, and the branch is still where they found it.
MergeFailedAtRefUpdate ==
    \E p, q \in Procs :
        /\ Ended(p, "merge") /\ eng[p].err = ErrIO /\ eng[p].commit # NoCommit
        /\ refs[req[p].branch] = eng[p].tip
        /\ Ended(q, "merge") /\ eng[q].err.kind = "ErrMerge"
        /\ refs[req[q].branch] = eng[q].tip

\* C3: MergeCheck never writes: no step of a MergeCheck request changes the
\* object store or a ref, whatever the patch, the branch and the result.
MergeCheckNeverWrites ==
    [][\A p \in Procs :
          (req[p].mode = "check" \/ req'[p].mode = "check") /\ pc'[p] # pc[p]
             => UNCHANGED <<refs, blobs, trees, commits>>]_vars

\* MergeCheck requests ended with "no conflicts" and with a conflict set, and
\* the store holds the initial objects only.
MergeCheckEndedBothWays ==
    \E p, q \in Procs :
        /\ Ended(p, "check") /\ Reached(p, "ApplyHunks") /\ eng[p].err = Nil
        /\ resp[p].status = StatusOK
        /\ Ended(q, "check") /\ eng[q].err.kind = "ErrMerge"
        /\ Cardinality(commits) = 2

\* The merge commit of worker p: written, with parent tip and the patched tree.
IsMergeCommit(id, tip, files) ==
    \E c \in commits :
        c.id = id /\ c.parent = tip /\ c.tree = Patched(files, TreeAt(tip))

Complete(id) ==
    /\ HasCommit(id)
    /\ \A a \in Ancestors(id) :
         /\ TreeAt(a) \in trees
         /\ BlobsOf(TreeAt(a)) \subseteq blobs
         /\ CommitOf(a).parent # NoCommit => HasCommit(CommitOf(a).parent)

\* C5: the ref update is the last step of a merge: the blobs, the tree and the
\* commit are in the store before the ref is changed, so every branch ref
\* always points to a commit whose objects all exist, and the commit written
\* by an attempt whose ref update failed is reachable from no ref.
RefUpdateIsLast ==
    /\ \A b \in Branches : Complete(refs[b])
    /\ \A p \in Procs : pc[p] = "ref" => Complete(eng[p].commit)
    /\ \A p \in Procs :
         pc[p] \in {"objects", "commit", "ref"} =>
            /\ ~eng[p].moved
            /\ \A b \in Branches : eng[p].commit = NoCommit \/ refs[b] # eng[p].commit
    /\ \A g \in garbage : \A b \in Branches : g \notin Ancestors(refs[b])

\* A merge wrote its commit object and its ref update failed: the commit is
\* in the store and no ref reaches it.
GarbageCommitUnreachable ==
    \E p \in Procs :
        /\ Ended(p, "merge") /\ eng[p].err = ErrIO
        /\ eng[p].commit \in garbage
        /\ HasCommit(eng[p].commit)
        /\ \A b \in Branches : eng[p].commit \notin Ancestors(refs[b])

IsPrefix(s, t) == Len(s) <= Len(t) /\ \A i \in 1..Len(s) : s[i] = t[i]

Stages == <<"ParsePatch", "ResolveTarget", "ApplyHunks", "WriteCommit">>

\* The stages of an attempt are visited in order, the attempt ends with the
\* stage that produced its outcome, and WriteCommit is reached only in apply
\* mode after ApplyHunks found no conflict.
StagesInOrder(p) ==
    /\ IsPrefix(eng[p].stages, Stages)
    /\ pc[p] = "done" /\ req[p].decoded /\ resp[p] # notFound =>
          Len(eng[p].stages) =
             CASE eng[p].err.kind = "InvalidPatch" -> 1
               [] eng[p].err.kind = "ReferenceNotFound" -> 2
               [] eng[p].err.kind = "ErrMerge" -> 3
               [] eng[p].err.kind = "IOError" -> 4
               [] OTHER -> IF req[p].mode = "check" THEN 3 ELSE 4
    /\ Reached(p, "WriteCommit") =>
          /\ req[p].mode = "merge"
          /\ Reached(p, "ApplyHunks")
          /\ eng[p].err.kind # "ErrMerge"
          /\ ApplyHunks(Files(p), TreeAt(eng[p].tip)) = <<>>

\* C6, as claimed: an attempt visits ParsePatch before ResolveTarget and is
\* terminal on its first outcome, a Merge request whose patch text is
\* malformed ends InvalidPatch with status 400 whether or not the named branch
\* exists, and WriteCommit is reached only in apply mode after zero conflicts.
MalformedPatchAlwaysParseError ==
    \A p \in Procs :
        /\ StagesInOrder(p)
        /\ Ended(p, "merge") /\ ~ParsePatch(req[p].patch).ok =>
              /\ eng[p].err = ErrInvalidPatch
              /\ resp[p] = writeError(StatusBadRequest)

\* C6, amended: the Merge handler opens the repository at the named branch
\* before the engine parses the patch, so a malformed patch ends InvalidPatch
\* with status 400 when the branch resolves, and ends 404 with the patch never
\* parsed when it does not; the stages are visited in order, the attempt is
\* terminal on its first outcome, and WriteCommit is reached only in apply
\* mode after zero conflicts.
MalformedPatchAfterOpen ==
    \A p \in Procs :
        /\ StagesInOrder(p)
        /\ Ended(p, "merge") /\ ~ParsePatch(req[p].patch).ok =>
              IF Open(req[p].branch).ok
              THEN /\ eng[p].err = ErrInvalidPatch
                   /\ eng[p].stages = <<"ParsePatch">>
                   /\ resp[p] = writeError(StatusBadRequest)
              ELSE /\ eng[p].stages = <<>>
                   /\ resp[p] = notFound

\* A Merge with a malformed patch on a missing branch ended 404, and one on an
\* existing branch ended 400.
MalformedPatchBothBranches ==
    \E p, q \in Procs :
        /\ Ended(p, "merge") /\ req[p].patch = Malformed /\ req[p].branch = "nope"
        /\ resp[p].status = StatusNotFound
        /\ Ended(q, "merge") /\ req[q].patch = Malformed /\ req[q].branch = "main"
        /\ resp[q].status = StatusBadRequest

Conflicted(p, mode) == Ended(p, mode) /\ eng[p].err.kind = "ErrMerge"

ConflictBody(p) ==
    /\ resp[p].kind = "json"
    /\ resp[p].body.is_conflicted
    /\ resp[p].body.conflicts # <<>>
    /\ resp[p].body.message = eng[p].err.Message

CleanCheckBody(p) ==
    Ended(p, "check") /\ Reached(p, "ApplyHunks") /\ eng[p].err = Nil =>
        /\ resp[p].status = StatusOK
        /\ resp[p].kind = "json"
        /\ ~resp[p].body.is_conflicted

\* C7, as claimed: a conflicted Merge responds 400 with the structured
\* conflict body, a conflicted MergeCheck responds 200 with the same body, and
\* a conflict-free MergeCheck responds 200 with is_conflicted=false.
ConflictStatusPerEndpoint ==
    \A p \in Procs :
        /\ Conflicted(p, "merge") => resp[p].status = StatusBadRequest /\ ConflictBody(p)
        /\ Conflicted(p, "check") => resp[p].status = StatusOK /\ ConflictBody(p)
        /\ CleanCheckBody(p)

\* C7, amended: both endpoints report a conflict through writeConflict, so a
\* conflicted Merge and a conflicted MergeCheck respond with the same status
\* and the structured body {is_conflicted:true, conflicts, message}; a
\* conflict-free MergeCheck responds 200 with is_conflicted=false.
ConflictStatusShared ==
    /\ \A p \in Procs :
         /\ Conflicted(p, "merge") \/ Conflicted(p, "check") => ConflictBody(p)
         /\ CleanCheckBody(p)
    /\ \A p, q \in Procs :
         Conflicted(p, "merge") /\ Conflicted(q, "check")
            => resp[p].status = resp[q].status

\* A conflicted Merge and a conflicted MergeCheck have both responded.
ConflictOnBothEndpoints ==
    \E p, q \in Procs :
        /\ Conflicted(p, "merge") /\ Conflicted(q, "check")
        /\ resp[p].status = resp[q].status
        /\ resp[p].body = resp[q].body

\* The patch's change to one file applies to tree t as recorded.
Applies(op, t) ==
    LET cur == t[op.path] IN
    \/ op.kind = "delete" /\ cur = op.blob
    \/ op.kind = "add" /\ (cur = Absent \/ cur = op.blob)
    \/ op.kind = "modify" /\ cur \in TextBlobs /\ cur[op.line] = op.old

Reasons == {"context-mismatch", "delete-modify", "add-add", "binary-patch", "path-missing"}

\* C8: conflict reporting is complete: the engine reports a conflict for every
\* touched file that does not apply, not only the first, and the Merge and the
\* MergeCheck response hold exactly one {filename, reason} entry per engine
\* conflict, in the patch's order, with is_conflicted=true and the engine's
\* summary message.
ConflictReportComplete ==
    \A p \in Procs :
        pc[p] = "done" /\ Reached(p, "ApplyHunks") =>
            LET t == TreeAt(eng[p].tip)
                bad == SelectSeq(Files(p), LAMBDA op : ~Applies(op, t))
                got == resp[p].body.conflicts
            IN IF bad = <<>> THEN eng[p].err.kind # "ErrMerge" /\ got = <<>>
               ELSE /\ eng[p].err.kind = "ErrMerge"
                    /\ Len(eng[p].err.Conflicts) = Len(bad)
                    /\ resp[p].body.is_conflicted
                    /\ resp[p].body.message = eng[p].err.Message
                    /\ resp[p].body.message # ""
                    /\ Len(got) = Len(bad)
                    /\ \A i \in 1..Len(bad) :
                         /\ got[i].filename = bad[i].path
                         /\ got[i].reason = eng[p].err.Conflicts[i].Reason
                         /\ got[i].reason \in Reasons

\* A Merge reported two conflicts, one per file, with different reasons.
TwoConflictsReported ==
    \E p \in Procs :
        /\ Conflicted(p, "merge")
        /\ Len(resp[p].body.conflicts) = 2
        /\ resp[p].body.conflicts[1].filename # resp[p].body.conflicts[2].filename
        /\ resp[p].body.conflicts[1].reason # resp[p].body.conflicts[2].reason

EntriesFor(p, path) ==
    {i \in 1..Len(resp[p].body.conflicts) : resp[p].body.conflicts[i].filename = path}

\* The hunk's recorded context differs from the current text at that line.
ContextDiffers(op, t) ==
    op.kind = "modify" /\ t[op.path] \in TextBlobs /\ t[op.path][op.line] # op.old

\* C9: for every patch with a hunk whose recorded context lines differ from
\* the current (text) content of its path, MergeCheck reports a conflict with
\* reason context-mismatch for exactly that path, and it reports no conflict
\* for a path whose hunks apply cleanly.
ContextMismatchExact ==
    \A p \in Procs :
        Ended(p, "check") /\ Reached(p, "ApplyHunks") =>
            LET t == TreeAt(eng[p].tip) IN
            \A k \in 1..Len(Files(p)) :
                LET op == Files(p)[k] IN
                /\ ContextDiffers(op, t) =>
                      /\ Cardinality(EntriesFor(p, op.path)) = 1
                      /\ \A i \in EntriesFor(p, op.path) :
                            resp[p].body.conflicts[i].reason = "context-mismatch"
                      /\ resp[p].body.is_conflicted
                /\ Applies(op, t) => EntriesFor(p, op.path) = {}

\* A MergeCheck of a two-file patch reported context-mismatch for the one file
\* whose context differs and nothing for the other, whose hunk applies although
\* another line of the file differs from the initial text.
OnlyMismatchedPathReported ==
    \E p \in Procs :
        /\ Ended(p, "check") /\ Reached(p, "ApplyHunks") /\ Len(Files(p)) = 2
        /\ ContextDiffers(Files(p)[1], TreeAt(eng[p].tip))
        /\ Applies(Files(p)[2], TreeAt(eng[p].tip))
        /\ TreeAt(eng[p].tip)[Files(p)[2].path] # InitTree[Files(p)[2].path]
        /\ resp[p].body.conflicts =
              <<[filename |-> Files(p)[1].path, reason |-> "context-mismatch"]>>

\* The patch deletes a file whose content at the tip differs from the pre-image.
DeletesModified(op, t) ==
    op.kind = "delete" /\ t[op.path] # Absent /\ t[op.path] # op.blob

\* C10: a Merge whose patch deletes a file whose content at the branch tip
\* differs from the patch's recorded pre-image answers with a conflict
\* {filename: that file, reason: delete-modify}; the file is still in the
\* branch's tree and no object, commit or ref was written.
DeleteModifyConflict ==
    \A p \in Procs :
        Ended(p, "merge") /\ Reached(p, "ApplyHunks") =>
            LET t == TreeAt(eng[p].tip) IN
            \A k \in 1..Len(Files(p)) :
                LET op == Files(p)[k] IN
                DeletesModified(op, t) =>
                    /\ \E i \in 1..Len(resp[p].body.conflicts) :
                          resp[p].body.conflicts[i] =
                             [filename |-> op.path, reason |-> "delete-modify"]
                    /\ resp[p].body.is_conflicted
                    /\ resp[p].status = conflictStatus
                    /\ TreeAt(refs[req[p].branch])[op.path] = t[op.path]
                    /\ refs[req[p].branch] = eng[p].tip
                    /\ ~eng[p].wrote /\ ~eng[p].moved
                    /\ Cardinality(commits) = 2 /\ nextId = 3

\* A Merge deleting a modified file ended with the one conflict delete-modify.
DeleteModifyReported ==
    \E p \in Procs :
        /\ Ended(p, "merge") /\ Reached(p, "ApplyHunks") /\ Len(Files(p)) = 1
        /\ DeletesModified(Files(p)[1], TreeAt(eng[p].tip))
        /\ resp[p].body.conflicts =
              <<[filename |-> Files(p)[1].path, reason |-> "delete-modify"]>>

\* ------------------------------------------------------- repository paths

MaxCalls == 2

StatusNoContent == 204

StatusConflict == 409

\* The configured scan root and default branch name.
ScanPath == Str(TRUE, <<"srv">>)

MainBranch == "main"

RECURSIVE Lexical(_, _, _)
\* The lexical walk of filepath.Clean: "." is dropped, ".." removes the
\* component before it, is dropped at the root and is kept at the front of a
\* relative path.
Lexical(comps, rooted, out) ==
    IF comps = <<>> THEN out
    ELSE LET c == Head(comps)
             rest == Tail(comps)
         IN IF c = "." THEN Lexical(rest, rooted, out)
            ELSE IF c = ".." THEN
                     IF out # <<>> /\ out[Len(out)] # ".."
                     THEN Lexical(rest, rooted, SubSeq(out, 1, Len(out) - 1))
                     ELSE IF rooted THEN Lexical(rest, rooted, out)
                     ELSE Lexical(rest, rooted, Append(out, ".."))
            ELSE Lexical(rest, rooted, Append(out, c))

Clean(s) == Str(s.abs, Lexical(s.comps, s.abs, <<>>))

\* filepath.Join: empty elements are ignored, the rest joined and cleaned.
Join(a, b) ==
    IF a = EmptyStr THEN Clean(b) ELSE Clean(Str(a.abs, a.comps \o b.comps))

\* securejoin.SecureJoin on a tree without symbolic links: the unsafe path is
\* resolved as if root were the filesystem root, then joined to root.
SecureJoin(root, unsafePath) == Join(root, Clean(Str(TRUE, unsafePath.comps)))

didPath(did, name) == SecureJoin(did, name)

\* path lies below root, and is not root itself.
StrictlyInside(root, path) ==
    /\ path.abs = root.abs
    /\ IsPrefix(root.comps, path.comps)
    /\ Len(path.comps) > Len(root.comps)

\* path is root or lies below it.
Within(root, path) == path.abs = root.abs /\ IsPrefix(root.comps, path.comps)

\* Strings a JSON body can carry as did: "", "a", ".." and "/a".
BodyDids ==
    {EmptyStr, Str(FALSE, <<"a">>), Str(FALSE, <<"..">>), Str(TRUE, <<"a">>)}

\* Strings a JSON body can carry as name: "", "r", ".." and "../../r".
BodyNames ==
    {EmptyStr, Str(FALSE, <<"r">>), Str(FALSE, <<"..">>),
     Str(FALSE, <<"..", "..", "r">>)}

BadBody == [ok |-> FALSE, did |-> EmptyStr, name |-> EmptyStr, default_branch |-> ""]

\* Request bodies: one that does not decode, and every decoded did and name.
Bodies ==
    {BadBody} \cup
    [ok : {TRUE}, did : BodyDids, name : BodyNames, default_branch : {"", "dev"}]

\* ------------------------------------------------ repository store on disk

ErrRepositoryAlreadyExists ==
    [kind |-> "RepositoryAlreadyExists", Conflicts |-> <<>>, Message |-> ""]

ErrRepositoryNotFound ==
    [kind |-> "RepositoryNotFound", Conflicts |-> <<>>, Message |-> ""]

\* A bare repository without commits whose HEAD names the default branch.
EmptyRepo(defaultBranch) == [head |-> defaultBranch, log |-> <<>>]

\* git.InitBare: the outcomes of creating a bare repository at repoPath.
InitBare(repoPath, defaultBranch) ==
    IF repoPath \in DOMAIN disk
    THEN {[err |-> ErrRepositoryAlreadyExists, disk |-> disk]}
    ELSE {[err |-> Nil, disk |-> disk @@ (repoPath :> EmptyRepo(defaultBranch))],
          [err |-> ErrIO, disk |-> disk]}

\* Enforcer.AddRepo: the outcomes of adding the owner's permission entry.
AddRepo(did, relativeRepoPath) ==
    {[err |-> Nil, acl |-> acl \cup {[did |-> did, repo |-> relativeRepoPath]}],
     [err |-> ErrIO, acl |-> acl]}

\* os.RemoveAll: the outcomes of removing repoPath and everything below it.
RemoveAll(repoPath) ==
    LET kept == {q \in DOMAIN disk : ~Within(repoPath, q)}
    IN {[err |-> Nil, disk |-> [q \in kept |-> disk[q]]],
        [err |-> ErrIO, disk |-> disk]}

\* ------------------------------------------------- NewRepo and RemoveRepo

NoPath == Str(FALSE, <<"-">>)

\* What the handler of a repository request did: the decoded body, the path it
\* built (touched: it was handed to the filesystem), the store before the
\* request and the errors of the calls it made. repeats: the request is a
\* Create that follows a Create answered 204 for the same did and name.
Called(op, body, touched, path, err, addErr) ==
    [op |-> op, body |-> body, touched |-> touched, path |-> path,
     before |-> disk, err |-> err, addErr |-> addErr,
     repeats |-> /\ op = "NewRepo" /\ body.ok
                 /\ call.op = "NewRepo" /\ reply.status = StatusNoContent
                 /\ call.body.did = body.did /\ call.body.name = body.name]

\* Mutant: a failure to add the permission entry is not reported.
NewRepoResponseIgnoresAddRepo(initErr, addErr) ==
    IF initErr.kind = "RepositoryAlreadyExists" THEN writeError(StatusConflict)
    ELSE IF initErr # Nil THEN writeError(StatusInternalServerError)
    ELSE WriteHeader(StatusNoContent)

\* The response of NewRepo to the errors of InitBare and AddRepo.
NewRepoResponse(initErr, addErr) ==
    IF initErr.kind = "RepositoryAlreadyExists" THEN writeError(StatusConflict)
    ELSE IF initErr # Nil THEN writeError(StatusInternalServerError)
    ELSE IF addErr # Nil THEN writeError(StatusInternalServerError)
    ELSE WriteHeader(StatusNoContent)

NewRepo(body) ==
    /\ calls < MaxCalls
    /\ calls' = calls + 1
    /\ IF ~body.ok
       THEN /\ reply' = writeError(StatusBadRequest)
            /\ call' = Called("NewRepo", body, FALSE, NoPath, Nil, Nil)
            /\ UNCHANGED <<disk, acl>>
       ELSE LET defaultBranch ==
                    IF body.default_branch = "" THEN MainBranch
                    ELSE body.default_branch
                relativeRepoPath == Join(body.did, body.name)
                repoPath == SecureJoin(ScanPath, relativeRepoPath)
            IN \E i \in InitBare(repoPath, defaultBranch) :
               \E a \in AddRepo(body.did, relativeRepoPath) :
                  LET addErr == IF i.err = Nil THEN a.err ELSE Nil IN
                  /\ disk' = i.disk
                  /\ acl' = IF i.err = Nil THEN a.acl ELSE acl
                  /\ reply' = NewRepoResponse(i.err, addErr)
                  /\ call' = Called("NewRepo", body, TRUE, repoPath, i.err, addErr)
    /\ UNCHANGED <<mergeVars, sideVars>>

\* Mutant: only a body that does not decode is rejected.
RemoveRepoRejectsUndecoded(body) == ~body.ok

\* RemoveRepo answers 400 before it builds any path.
RemoveRepoRejects(body) ==
    ~body.ok \/ body.did = EmptyStr \/ body.name = EmptyStr

RemoveRepo(body) ==
    /\ calls < MaxCalls
    /\ calls' = calls + 1
    /\ IF RemoveRepoRejects(body)
       THEN /\ reply' = IF ~body.ok THEN writeError(StatusBadRequest)
                        ELSE WriteHeader(StatusBadRequest)
            /\ call' = Called("RemoveRepo", body, FALSE, NoPath, Nil, Nil)
            /\ UNCHANGED <<disk, acl>>
       ELSE LET relativeRepoPath == Join(body.did, body.name)
                repoPath == SecureJoin(ScanPath, relativeRepoPath)
            IN \E rm \in RemoveAll(repoPath) :
                  /\ disk' = rm.disk
                  /\ reply' = IF rm.err # Nil
                              THEN writeError(StatusInternalServerError)
                              ELSE WriteHeader(StatusNoContent)
                  /\ call' = Called("RemoveRepo", body, TRUE, repoPath, rm.err, Nil)
                  /\ UNCHANGED acl
    /\ UNCHANGED <<mergeVars, sideVars>>

NextRepo ==
    \/ \E body \in Bodies : NewRepo(body)
    \/ \E body \in Bodies : RemoveRepo(body)

\* Repository creation and removal, one request after another, on a scan root
\* that starts without repositories.
SpecRepo == Init /\ [][NextRepo]_vars

\* ------------------------------------------------------- read handlers

IntBits == 6

IndexCommits == 10

DefaultPage == 1

DefaultPageSize == 30

MaxInt == 2^(IntBits - 1) - 1

MinInt == -(2^(IntBits - 1))

\* int arithmetic wraps around at the width of int.
Wrap(x) == ((x - MinInt) % 2^IntBits) + MinInt

\* A string is a sequence of tokens; a branch name is a string of one token.
TarGz == <<".tar", ".gz">>

HasSuffix(str, suffix) ==
    /\ Len(suffix) <= Len(str)
    /\ SubSeq(str, Len(str) - Len(suffix) + 1, Len(str)) = suffix

TrimSuffix(str, suffix) ==
    IF HasSuffix(str, suffix) THEN SubSeq(str, 1, Len(str) - Len(suffix)) ELSE str

\* URL parameters did and name, each one path segment.
UrlDids == {Str(FALSE, <<"a">>), Str(FALSE, <<"..">>)}

UrlNames == {Str(FALSE, <<"r">>), Str(FALSE, <<"..">>)}

\* URL parameter ref: none, two branch names and a name no repository has.
Refs == {<<>>, <<"main">>, <<"dev">>, <<"nope">>}

\* URL parameter file of the archive endpoint.
ArchiveFiles ==
    LET tokens == {"main", "nope", ".tar", ".gz"}
    IN UNION {[1..n -> tokens] : n \in 0..3}

\* Query parameters page and per_page: absent, not a number, or an int.
QueryVals ==
    {[kind |-> "missing", val |-> 0], [kind |-> "text", val |-> 0]}
    \cup [kind : {"int"}, val : -1..MaxInt]

Atoi(str) == [ok |-> str.kind = "int", val |-> str.val]

\* The repository the read requests are about, and what it can hold: no
\* list, or branches with their number of list.
RepoAt == Str(TRUE, <<"srv", "a", "r">>)

ReadRepos ==
    {EmptyRepo(MainBranch),
     [head |-> "main", log |-> ("main" :> 3 @@ "dev" :> 1)],
     [head |-> "master", log |-> ("master" :> 11 @@ "dev" :> 2)],
     [head |-> "trunk", log |-> ("trunk" :> 2 @@ "dev" :> 1)]}

ReadDisks == {<<>>} \cup {RepoAt :> c : c \in ReadRepos}

\* git.Open on the repositories of the scan root.
OpenAt(path, ref) ==
    IF path \notin DOMAIN disk
    THEN [err |-> ErrRepositoryNotFound, branch |-> ""]
    ELSE LET names == DOMAIN disk[path].log IN
         IF names = {} THEN [err |-> ErrReferenceNotFound, branch |-> ""]
         ELSE IF ref = <<>> THEN [err |-> Nil, branch |-> FindMainBranch(names)]
         ELSE IF \E b \in names : ref = <<b>> THEN [err |-> Nil, branch |-> ref[1]]
         ELSE [err |-> ErrReferenceNotFound, branch |-> ""]

\* GitRepo.Commits: the list reachable from the opened branch, newest first.
Commits(path, branch) ==
    LET n == disk[path].log[branch] IN [i \in 1..n |-> <<branch, n + 1 - i>>]

\* s[lo:hi] of a slice whose capacity is its length.
Slice(s, lo, hi) ==
    IF 0 <= lo /\ lo <= hi /\ hi <= Len(s)
    THEN [panic |-> FALSE, val |-> SubSeq(s, lo + 1, hi)]
    ELSE [panic |-> TRUE, val |-> <<>>]

\* A handler that panics writes no response; the server closes the connection.
Panic == [status |-> 0, kind |-> "panic", body |-> NoBody]

EmptyIndex ==
    [IsEmpty |-> TRUE, Ref |-> <<>>, Commits |-> <<>>, Branches |-> {},
     TotalCommits |-> 0]

\* Mutant: every failure to open is a not-found error.
RepoIndexOpenFailureNotFound(err) == notFound

\* RepoIndex when git.Open fails.
RepoIndexOpenFailure(err) ==
    IF err.kind = "ReferenceNotFound" THEN writeJSON(EmptyIndex) ELSE notFound

\* Mutant: the ref of the response is the ref of the request.
IndexRefAsRequested(ref, names) == ref

\* The Ref of the index response.
IndexRef(ref, names) == IF ref = <<>> THEN <<FindMainBranch(names)>> ELSE ref

RepoIndex(did, name, ref) ==
    LET path == SecureJoin(ScanPath, didPath(did, name))
        gr == OpenAt(path, ref)
        called == [op |-> "RepoIndex", touched |-> TRUE, path |-> path,
                   ref |-> ref, err |-> gr.err, branch |-> gr.branch]
    IN /\ call = NoCall
       /\ call' = called
       /\ IF gr.err # Nil THEN reply' = RepoIndexOpenFailure(gr.err)
          ELSE \E fault \in {Nil, ErrIO} :
               IF fault # Nil THEN reply' = writeError(StatusInternalServerError)
               ELSE LET list == Commits(path, gr.branch)
                        total == Len(list)
                        shown == IF Len(list) > IndexCommits
                                 THEN SubSeq(list, 1, IndexCommits)
                                 ELSE list
                        names == DOMAIN disk[path].log
                    IN reply' = writeJSON([IsEmpty |-> FALSE,
                                           Ref |-> IndexRef(ref, names),
                                           Commits |-> shown,
                                           Branches |-> names,
                                           TotalCommits |-> total])
       /\ UNCHANGED <<disk, acl, calls>>
       /\ UNCHANGED <<mergeVars, sideVars>>

\* Mutant: a missing ref is reported as a bad request.
RepoTreeOpenFailureByKind(err) ==
    IF err.kind = "ReferenceNotFound" THEN writeError(StatusBadRequest) ELSE notFound

\* RepoTree when git.Open fails.
RepoTreeOpenFailure(err) == notFound

RepoTree(did, name, ref, treePath) ==
    LET path == SecureJoin(ScanPath, didPath(did, name))
        gr == OpenAt(path, ref)
        called == [op |-> "RepoTree", touched |-> TRUE, path |-> path,
                   ref |-> ref, err |-> gr.err, branch |-> gr.branch]
    IN /\ call = NoCall
       /\ call' = called
       /\ IF gr.err # Nil THEN reply' = RepoTreeOpenFailure(gr.err)
          ELSE \E fault \in {Nil, ErrIO} :
               IF fault # Nil THEN reply' = writeError(StatusInternalServerError)
               ELSE reply' = writeJSON([Ref |-> ref, Parent |-> treePath])
       /\ UNCHANGED <<disk, acl, calls>>
       /\ UNCHANGED <<mergeVars, sideVars>>

\* Pagination of Log: the effective page and page size and the list shown.
Paginate(list, pageParam, pageSizeParam) ==
    LET p == Atoi(pageParam)
        ps == Atoi(pageSizeParam)
        page == IF pageParam.kind # "missing" /\ p.ok /\ p.val > 0
                THEN p.val ELSE DefaultPage
        pageSize == IF pageSizeParam.kind # "missing" /\ ps.ok /\ ps.val > 0
                    THEN ps.val ELSE DefaultPageSize
        start == Wrap((page - 1) * pageSize)
        end == Wrap(start + pageSize)
        total == Len(list)
        shown == IF start >= total THEN [panic |-> FALSE, val |-> <<>>]
                 ELSE Slice(list, start, IF end > total THEN total ELSE end)
    IN [page |-> page, pageSize |-> pageSize, total |-> total,
        panic |-> shown.panic, commits |-> shown.val]

Log(did, name, ref) ==
    LET path == SecureJoin(ScanPath, didPath(did, name))
        gr == OpenAt(path, ref)
        called == [op |-> "Log", touched |-> TRUE, path |-> path, ref |-> ref,
                   err |-> gr.err, branch |-> gr.branch, paged |-> FALSE]
    IN /\ call = NoCall
       /\ IF gr.err # Nil THEN reply' = notFound /\ call' = called
          ELSE \E fault \in {Nil, ErrIO} :
               IF fault # Nil
               THEN reply' = writeError(StatusInternalServerError) /\ call' = called
               ELSE \E pageParam \in QueryVals, pageSizeParam \in QueryVals :
                    LET list == Commits(path, gr.branch)
                        pg == Paginate(list, pageParam, pageSizeParam)
                    IN /\ call' = [called EXCEPT !.paged = TRUE] @@
                                  [page |-> pageParam, per_page |-> pageSizeParam,
                                   all |-> list]
                       /\ reply' = IF pg.panic THEN Panic
                                   ELSE writeJSON([Commits |-> pg.commits,
                                                   Ref |-> ref,
                                                   Total |-> pg.total,
                                                   Page |-> pg.page,
                                                   PerPage |-> pg.pageSize])
       /\ UNCHANGED <<disk, acl, calls>>
       /\ UNCHANGED <<mergeVars, sideVars>>

\* Mutant: the download is offered as an attachment.
setContentDispositionAttachment(name) ==
    <<"attachment; filename=\"">> \o name \o <<"\"">>

\* setContentDisposition: the header value for a download named name.
setContentDisposition(name) == <<"inline; filename=\"">> \o name \o <<"\"">>

setGZipMIME == <<"application/gzip">>

\* Archive serves a file whose name ends in ".tar.gz".
ArchiveAccepts(file) == HasSuffix(file, TarGz)

Archive(did, name, file) ==
    IF ~ArchiveAccepts(file)
    THEN /\ call = NoCall
         /\ reply' = notFound
         /\ call' = [op |-> "Archive", touched |-> FALSE, path |-> NoPath,
                     name |-> name, file |-> file, opened |-> FALSE,
                     header |-> <<>>]
         /\ UNCHANGED <<disk, acl, calls>>
         /\ UNCHANGED <<mergeVars, sideVars>>
    ELSE LET ref == TrimSuffix(file, TarGz)
             filename == name.comps \o <<"-">> \o ref \o TarGz
             header == [ContentDisposition |-> setContentDisposition(filename),
                        ContentType |-> setGZipMIME]
             path == SecureJoin(ScanPath, didPath(did, name))
             gr == OpenAt(path, ref)
             prefix == name.comps \o <<"-">> \o ref
         IN /\ call = NoCall
            /\ call' = [op |-> "Archive", touched |-> TRUE, path |-> path,
                        name |-> name, file |-> file, opened |-> gr.err = Nil,
                        header |-> header]
            /\ IF gr.err # Nil THEN reply' = notFound
               ELSE \E complete \in BOOLEAN :
                    reply' = [status |-> StatusOK, kind |-> "tar.gz",
                              body |-> [prefix |-> prefix, branch |-> gr.branch,
                                        complete |-> complete]]
            /\ UNCHANGED <<disk, acl, calls>>
            /\ UNCHANGED <<mergeVars, sideVars>>

\* The scan root holds one repository path, in each of its possible states;
\* the read handlers do not use writeConflict and keep no state between
\* requests, so each serves one request.
InitRead ==
    /\ MergeIdle(InitTree)
    /\ conflictStatus = StatusOK
    /\ disk \in ReadDisks
    /\ acl = {}
    /\ call = NoCall
    /\ reply = NoResp
    /\ calls = 0
    /\ SideIdle

NextRead ==
    \E did \in UrlDids, name \in UrlNames :
       \/ \E ref \in Refs : RepoIndex(did, name, ref)
       \/ \E ref \in Refs, treePath \in {<<>>, <<"dir">>} :
             RepoTree(did, name, ref, treePath)
       \/ \E ref \in Refs : Log(did, name, ref)
       \/ \E file \in ArchiveFiles : Archive(did, name, file)

\* One read request on a scan root nothing writes to, for each of its states.
SpecRead == InitRead /\ [][NextRead]_vars

\* --------------------------------------- properties of repository requests

\* C11: every path a handler hands to the filesystem lies strictly inside the
\* scan root, whatever did and name the request carries.
PathsStrictlyInsideScanRoot ==
    call.op # None /\ call.touched => StrictlyInside(ScanPath, call.path)

\* The paths the handlers build never leave the scan root (they can be it).
PathsWithinScanRoot ==
    call.op # None /\ call.touched => Within(ScanPath, call.path)

\* NewRepo created the bare repository and its permission entry.
CreatedBoth ==
    /\ call.touched /\ call.err = Nil /\ call.addErr = Nil
    /\ call.path \notin DOMAIN call.before
    /\ call.path \in DOMAIN disk
    /\ [did |-> call.body.did, repo |-> Join(call.body.did, call.body.name)] \in acl

\* C15 (as stated): Create answers 204 when repository and permission entry
\* were created, 409 when a repository was at the path, and 500 for every
\* other failure.
CreateStatusTable ==
    call.op = "NewRepo" =>
        reply.status =
            IF call.touched /\ call.path \in DOMAIN call.before THEN StatusConflict
            ELSE IF CreatedBoth THEN StatusNoContent
            ELSE StatusInternalServerError

CreateOutcome ==
    call.op = "NewRepo" =>
        /\ ~call.body.ok => reply.status = StatusBadRequest /\ disk = call.before
        /\ call.body.ok =>
              /\ call.path = SecureJoin(ScanPath, Join(call.body.did, call.body.name))
              /\ reply.status =
                    IF call.path \in DOMAIN call.before THEN StatusConflict
                    ELSE IF call.err = Nil /\ call.addErr = Nil THEN StatusNoContent
                    ELSE StatusInternalServerError
        /\ reply.status = StatusNoContent => CreatedBoth

\* C15: Create answers 400 to a body that does not decode, 409 when a
\* repository is at the path, 204 only when repository and permission entry
\* were both created and 500 for every other failure; a Create repeated after
\* a 204 is answered 409.
CreateStatusAndRepeat ==
    /\ CreateOutcome
    /\ call.op = "NewRepo" /\ call.repeats => reply.status = StatusConflict

\* A Create was answered 204 and the next one, for the same did and name, 409.
SecondCreateConflicts ==
    /\ call.op = "NewRepo" /\ call.repeats
    /\ reply.status = StatusConflict
    /\ call.path \in DOMAIN call.before

\* C16: a Create that is answered with a failure status leaves no repository
\* that was not there before.
CreateAllOrNothing ==
    call.op = "NewRepo" /\ reply.status # StatusNoContent =>
        DOMAIN disk = DOMAIN call.before

\* C17: Remove answers 400 and removes nothing when did or name is missing,
\* 500 when the removal fails, and 204 otherwise, after which no repository is
\* at the path of did and name.
RemoveOutcome ==
    call.op = "RemoveRepo" =>
        LET missing == ~call.body.ok \/ call.body.did = EmptyStr
                       \/ call.body.name = EmptyStr
        IN /\ missing =>
                 reply.status = StatusBadRequest /\ ~call.touched /\ disk = call.before
           /\ ~missing /\ call.err # Nil =>
                 reply.status = StatusInternalServerError
           /\ ~missing /\ call.err = Nil =>
                 /\ reply.status = StatusNoContent
                 /\ call.path = SecureJoin(ScanPath, Join(call.body.did, call.body.name))
                 /\ call.path \notin DOMAIN disk

\* A repository that was on disk has been removed with status 204.
RepoRemoved ==
    /\ call.op = "RemoveRepo" /\ reply.status = StatusNoContent
    /\ call.path \in DOMAIN call.before
    /\ call.path \notin DOMAIN disk

\* ---------------------------------------------- properties of read requests

\* The repository at path has commits.
HasCommits(path) == path \in DOMAIN disk /\ DOMAIN disk[path].log # {}

\* The repository at path exists and has no commits.
IsEmptyRepo(path) == path \in DOMAIN disk /\ DOMAIN disk[path].log = {}

\* C12: the index of a repository that is on disk without commits is answered
\* with IsEmpty=true and not with an error; the index of a path without
\* repository is answered with a not-found error.
IndexEmptyOrNotFound ==
    call.op = "RepoIndex" =>
        /\ IsEmptyRepo(call.path) =>
              /\ reply.status = StatusOK /\ reply.kind = "json"
              /\ reply.body.IsEmpty
        /\ call.path \notin DOMAIN disk =>
              reply.status = StatusNotFound /\ reply.kind = "error"

\* The index of a repository without commits has been answered.
EmptyRepoIndexed ==
    /\ call.op = "RepoIndex" /\ IsEmptyRepo(call.path)
    /\ reply.status = StatusOK /\ reply.body.IsEmpty

\* The request names a ref that the repository with commits at its path lacks.
MissingRef ==
    /\ HasCommits(call.path)
    /\ call.ref # <<>>
    /\ \A b \in DOMAIN disk[call.path].log : call.ref # <<b>>

\* C13 (as stated): the response to a tree request naming a ref that does
\* not exist differs from the response to one for a path without repository.
TreeMissingRefDistinct ==
    call.op = "RepoTree" /\ MissingRef =>
        reply # RepoTreeOpenFailure(ErrRepositoryNotFound)

\* C13: for a tree request naming a ref that does not exist git.Open fails
\* with ReferenceNotFound, for one whose path has no repository with
\* RepositoryNotFound, and the response to both is the same not-found error.
TreeOpenFailuresAlike ==
    call.op = "RepoTree" =>
        /\ MissingRef =>
              call.err.kind = "ReferenceNotFound" /\ reply = notFound
        /\ call.path \notin DOMAIN disk =>
              call.err.kind = "RepositoryNotFound" /\ reply = notFound

\* A tree request naming a ref that does not exist has been answered 404.
TreeMissingRefNotFound ==
    /\ call.op = "RepoTree" /\ MissingRef
    /\ call.err.kind = "ReferenceNotFound"
    /\ reply.status = StatusNotFound

\* C14: for page >= 1 and per_page >= 1 Log does not fail, its Total is the
\* number of commits, and the commits shown are none when
\* (page-1)*per_page >= total.
LogPageNeverFails ==
    /\ call.op = "Log" /\ call.paged
    /\ call.page.kind = "int" /\ call.page.val >= 1
    /\ call.per_page.kind = "int" /\ call.per_page.val >= 1
    => /\ reply.status = StatusOK /\ reply.kind = "json"
       /\ reply.body.Total = Len(call.all)
       /\ (call.page.val - 1) * call.per_page.val >= Len(call.all) =>
             reply.body.Commits = <<>>

\* C18: an index request without ref is answered with the Ref the main-branch
\* heuristic gives for the repository's branch names (the first of main,
\* master that is a branch, else a branch), which is the branch git.Open
\* resolved and whose commits the response shows.
IndexRefIsMainBranch ==
    /\ call.op = "RepoIndex" /\ call.ref = <<>>
    /\ reply.status = StatusOK /\ ~reply.body.IsEmpty
    => LET names == DOMAIN disk[call.path].log
           Ref == reply.body.Ref
       IN /\ Len(Ref) = 1 /\ Ref[1] \in names
          /\ "main" \in names => Ref = <<"main">>
          /\ "main" \notin names /\ "master" \in names => Ref = <<"master">>
          /\ Ref[1] = call.branch
          /\ \A i \in 1..Len(reply.body.Commits) : reply.body.Commits[i][1] = Ref[1]

\* An index request without ref has been answered for a repository whose
\* main branch is the second candidate.
IndexOfSecondCandidate ==
    /\ call.op = "RepoIndex" /\ call.ref = <<>>
    /\ reply.status = StatusOK /\ ~reply.body.IsEmpty
    /\ reply.body.Ref = <<"master">>
    /\ reply.body.Commits # <<>>

\* C20: an archive is served only for a file name ending in ".tar.gz", any
\* other is answered 404; the ref is the file name without the suffix; a
\* served archive has Content-Type application/gzip and Content-Disposition
\* inline; filename="<repo>-<ref>.tar.gz"; a request whose repository or ref
\* cannot be opened is answered 404.
ArchiveOutcome ==
    call.op = "Archive" =>
        LET file == call.file
            n == Len(file)
            suffixed == n >= 2 /\ file[n - 1] = ".tar" /\ file[n] = ".gz"
            ref == SubSeq(file, 1, n - 2)
            served == reply.kind = "tar.gz"
        IN /\ ~suffixed => reply = notFound
           /\ served =>
                 /\ suffixed
                 /\ reply.status = StatusOK
                 /\ HasCommits(call.path)
                 /\ reply.body.branch =
                       IF ref = <<>> THEN FindMainBranch(DOMAIN disk[call.path].log)
                       ELSE ref[1]
                 /\ ref # <<>> => Len(ref) = 1
                 /\ call.header.ContentType = <<"application/gzip">>
                 /\ call.header.ContentDisposition =
                       <<"inline; filename=\"">> \o call.name.comps \o <<"-">>
                       \o ref \o <<".tar", ".gz">> \o <<"\"">>
           /\ suffixed /\ ~call.opened => reply = notFound
           /\ suffixed /\ call.opened => served

\* The archive of branch main has been served.
ArchiveServed ==
    /\ call.op = "Archive"
    /\ call.file = <<"main", ".tar", ".gz">>
    /\ reply.kind = "tar.gz"
    /\ reply.body.complete

\* The page and page size the claim gives a query parameter: its value when
\* it is a positive number, else the default.
Effective(param, default) ==
    IF param.kind = "int" /\ param.val > 0 THEN param.val ELSE default

\* C21: Log shows exactly the commits (p-1)*s .. min(p*s, total) of the
\* list, newest first, where p and s are the page and per_page parameters or,
\* when one is missing, not a number or not positive, the defaults 1 and 30,
\* and the response echoes p and s.
LogSliceExact ==
    call.op = "Log" /\ call.paged =>
        LET p == Effective(call.page, DefaultPage)
            s == Effective(call.per_page, DefaultPageSize)
            total == Len(call.all)
            lo == (p - 1) * s
            hi == IF p * s < total THEN p * s ELSE total
        IN /\ reply.status = StatusOK /\ reply.kind = "json"
           /\ reply.body.Page = p /\ reply.body.PerPage = s
           /\ reply.body.Commits =
                 IF lo >= hi THEN <<>> ELSE SubSeq(call.all, lo + 1, hi)

\* The slice and the echoed parameters are as stated whenever p*s is an int.
LogSliceExactWithinInt ==
    /\ call.op = "Log" /\ call.paged
    /\ Effective(call.page, DefaultPage) * Effective(call.per_page, DefaultPageSize)
          <= MaxInt
    => LogSliceExact

\* C22: the index is answered IsEmpty=true only for a repository without
\* commits, never for a ref that a repository with commits lacks.
IsEmptyOnlyWithoutCommits ==
    /\ call.op = "RepoIndex"
    /\ reply.status = StatusOK /\ reply.body.IsEmpty
    => IsEmptyRepo(call.path)

\* C23: the path RemoveRepo removes lies two levels below the scan root, is
\* not the scan root and contains no other repository.
RemoveOnlyOneRepo ==
    call.op = "RemoveRepo" /\ call.touched =>
        /\ StrictlyInside(ScanPath, call.path)
        /\ Len(call.path.comps) = Len(ScanPath.comps) + 2
        /\ \A q \in DOMAIN call.before : ~StrictlyInside(call.path, q)

\* ------------------------------------------------- the knot's Init and Keys

\* hmac.New(sha256.New, key) over msg: distinct for distinct keys and
\* messages.
HMAC(key, msg) == <<"hmac-sha256", key, msg>>

\* hex.EncodeToString: the header value that carries the bytes b.
EncodeToString(b) == <<"hex", b>>

\* The knot's configured secret.
Secret == "secret"

\* Bodies of Init: one that does not decode, and the dids "", "a" and "b".
InitBodies == {[ok |-> FALSE, did |-> ""]} \cup [ok : {TRUE}, did : {"", "a", "b"}]

\* A public key line is a sequence of fields: type, base64 blob, comment.
KeyLines ==
    {<<>>, <<"hello">>, <<"ssh-ed25519", "!!">>, <<"ssh-ed25519", "AAAA">>,
     <<"ssh-rsa", "AAAA", "me">>}

\* Bodies of a PUT to Keys: one that does not decode, and every key line.
KeyBodies == {[ok |-> FALSE, key |-> <<>>]} \cup [ok : {TRUE}, key : KeyLines]

\* ssh.ParseAuthorizedKey succeeds on a known key type followed by a blob.
ParseAuthorizedKey(line) ==
    /\ Len(line) >= 2
    /\ line[1] \in {"ssh-ed25519", "ssh-rsa"}
    /\ line[2] = "AAAA"

\* The knot after construction: it is initialized, with its init channel
\* closed, exactly when its database already knows a did.
KnotStart(initialized) ==
    [knotInitialized |-> initialized, closed |-> initialized,
     dids |-> IF initialized THEN {"a"} ELSE {},
     owners |-> IF initialized THEN {"a"} ELSE {},
     keys |-> {},
     pc |-> [p \in Procs |-> "idle"],
     reply |-> [p \in Procs |-> NoResp],
     late |-> [p \in Procs |-> FALSE],
     op |-> [p \in Procs |-> None],
     put |-> [p \in Procs |-> <<>>],
     served |-> 0, ownerAdds |-> 0, closes |-> 0, doubleClose |-> FALSE]

Signed(r, signature) ==
    [status |-> r.status, kind |-> r.kind, body |-> r.body, signature |-> signature]

\* Worker p has answered: r is its response.
Answer(k, p, r) == [k EXCEPT !.pc[p] = "done", !.reply[p] = r]

\* Init reads h.knotInitialized. late: the init channel was closed already
\* when the request arrived.
InitGuard(p) ==
    /\ knot.pc[p] = "idle"
    /\ knot.served < MaxRequests
    /\ LET k == [knot EXCEPT !.served = @ + 1, !.op[p] = "Init",
                              !.late[p] = knot.closed] IN
       knot' = IF knot.knotInitialized
               THEN Answer(k, p, writeError(StatusConflict))
               ELSE [k EXCEPT !.pc[p] = "init"]
    /\ UNCHANGED <<mergeVars, repoVars, appview, issues, ingest, probe>>

\* The rest of Init: decode, AddDid, AddOwner, fetchAndAddKeys, close(h.init)
\* and the signed 204. failAt: the call that returns an error, if any.
HandleInit(p, data, failAt) ==
    /\ knot.pc[p] = "init"
    /\ knot' =
          IF ~data.ok \/ data.did = ""
          THEN Answer(knot, p, writeError(StatusBadRequest))
          ELSE IF failAt = "AddDid"
          THEN Answer(knot, p, writeError(StatusInternalServerError))
          ELSE LET k1 == [knot EXCEPT !.dids = @ \cup {data.did}] IN
          IF failAt = "AddOwner"
          THEN Answer(k1, p, writeError(StatusInternalServerError))
          ELSE LET k2 == [k1 EXCEPT !.owners = @ \cup {data.did},
                                    !.ownerAdds = @ + 1] IN
          IF failAt = "fetchAndAddKeys"
          THEN Answer(k2, p, writeError(StatusInternalServerError))
          ELSE IF k2.closed
          THEN Answer([k2 EXCEPT !.doubleClose = TRUE], p, Panic)
          ELSE Answer([k2 EXCEPT !.closed = TRUE, !.closes = @ + 1], p,
                      Signed(WriteHeader(StatusNoContent),
                             EncodeToString(HMAC(Secret, "ok"))))
    /\ UNCHANGED <<mergeVars, repoVars, appview, issues, ingest, probe>>

\* Keys, method PUT. The first status written is the status of the response.
KeysPut(p, pk, addFails) ==
    /\ knot.pc[p] = "idle"
    /\ knot.served < MaxRequests
    /\ LET k == [knot EXCEPT !.served = @ + 1, !.op[p] = "KeysPut",
                              !.put[p] = pk.key] IN
       knot' =
          IF ~pk.ok THEN Answer(k, p, writeError(StatusBadRequest))
          ELSE LET invalid == ~ParseAuthorizedKey(pk.key) IN
               IF addFails
               THEN Answer(k, p, IF invalid THEN writeError(StatusBadRequest)
                                 ELSE writeError(StatusInternalServerError))
               ELSE Answer([k EXCEPT !.keys = @ \cup {pk.key}], p,
                           IF invalid THEN writeError(StatusBadRequest)
                           ELSE WriteHeader(StatusNoContent))
    /\ UNCHANGED <<mergeVars, repoVars, appview, issues, ingest, probe>>

\* Keys, method GET.
KeysGet(p, getFails) ==
    /\ knot.pc[p] = "idle"
    /\ knot.served < MaxRequests
    /\ LET k == [knot EXCEPT !.served = @ + 1, !.op[p] = "KeysGet"] IN
       knot' = IF getFails THEN Answer(k, p, writeError(StatusInternalServerError))
               ELSE Answer(k, p, writeJSON(knot.keys))
    /\ UNCHANGED <<mergeVars, repoVars, appview, issues, ingest, probe>>

\* The worker takes the next request.
KnotNext(p) ==
    /\ knot.pc[p] = "done"
    /\ knot' = [knot EXCEPT !.pc[p] = "idle"]
    /\ UNCHANGED <<mergeVars, repoVars, appview, issues, ingest, probe>>

InitKnot ==
    /\ MergeIdle(InitTree)
    /\ conflictStatus = StatusOK
    /\ RepoIdle
    /\ knot \in {KnotStart(FALSE), KnotStart(TRUE)}
    /\ appview = Idle /\ issues = Idle /\ ingest = Idle /\ probe = Idle

NextKnot ==
    \E p \in Procs :
       \/ InitGuard(p)
       \/ \E data \in InitBodies :
          \E failAt \in {"", "AddDid", "AddOwner", "fetchAndAddKeys"} :
             HandleInit(p, data, failAt)
       \/ \E pk \in KeyBodies, addFails \in BOOLEAN : KeysPut(p, pk, addFails)
       \/ \E getFails \in BOOLEAN : KeysGet(p, getFails)
       \/ KnotNext(p)

\* Concurrent workers serving Init and Keys requests of a knot.
SpecKnot == InitKnot /\ [][NextKnot]_vars

\* C24: the owner is added and the init channel is closed by at most one Init
\* request, the channel is never closed twice, and an Init that arrives after
\* the knot is initialized is answered 409.
InitAtMostOnce ==
    /\ knot.ownerAdds <= 1
    /\ knot.closes <= 1
    /\ ~knot.doubleClose
    /\ \A p \in Procs :
          knot.op[p] = "Init" /\ knot.pc[p] = "done" /\ knot.late[p] =>
              knot.reply[p].status = StatusConflict

\* C25: a PUT to Keys whose key does not parse is answered 400 and the key is
\* not in the key store; only keys that parse are stored.
InvalidKeyNotStored ==
    /\ \A key \in knot.keys : ParseAuthorizedKey(key)
    /\ \A p \in Procs :
          knot.op[p] = "KeysPut" /\ knot.pc[p] = "done"
          /\ ~ParseAuthorizedKey(knot.put[p]) =>
              knot.reply[p].status = StatusBadRequest

\* ------------------------------------------ the appview's knot registration

\* Domains named in a request: none, a knot without a registration key, and
\* a knot whose registration key is the knot's secret.
Domains == {"", "k0", "k1"}

\* db.GetRegistrationKey: the secret generated for the domain, None if none.
GetRegistrationKey(domain) == IF domain = "k1" THEN Secret ELSE None

\* The logged-in user, who also generated the registration key.
UserDid == "a"

\* hex.DecodeString: the bytes a header value carries, or an error when the
\* value is not hexadecimal. The empty value decodes to no bytes.
DecodeString(v) ==
    IF v = <<>> THEN [err |-> FALSE, bytes |-> <<>>]
    ELSE IF v[1] = "hex" THEN [err |-> FALSE, bytes |-> v[2]]
    ELSE [err |-> TRUE, bytes |-> <<>>]

\* What the signed client gets back from the knot: a transport error, or a
\* status with an X-Signature header.
KnotResponses ==
    {[err |-> TRUE, status |-> 0, signature |-> <<>>]}
    \cup [err : {FALSE},
          status : {StatusNoContent, StatusConflict, StatusInternalServerError,
                    StatusBadRequest},
          signature : {<<>>}]
    \cup [err : {FALSE}, status : {StatusNoContent},
          signature : {EncodeToString(HMAC(Secret, "ok")),
                       EncodeToString(HMAC("other", "ok")),
                       <<"zz">>}]

\* The appview: registered domains and repo rows of its database, the
\* enforcer's policy in memory and as saved, and the last request handled.
AppStart(domains) ==
    LET policy == {<<"domain", d>> : d \in domains}
                  \cup {<<"owner", d, UserDid>> : d \in domains} IN
    [registered |-> domains, repos |-> {}, mem |-> policy, saved |-> policy,
     served |-> 0, last |-> Idle]

\* The deferred function: tx.Rollback(), then LoadPolicy, which replaces the
\* policy in memory by the saved one unless it fails.
Deferred(a, loadFails) == IF loadFails THEN a ELSE [a EXCEPT !.mem = a.saved]

\* What a handler of the appview wrote: the status, 200 unless an error was
\* written, and the text.
Wrote(status, body) == [status |-> status, body |-> body]

\* The handler returns: a is the appview it leaves behind.
Handled(a, op, in, begun, out) ==
    [a EXCEPT !.served = @ + 1,
              !.last = [op |-> op, in |-> in, begun |-> begun, out |-> out,
                        before |-> [registered |-> appview.registered,
                                    repos |-> appview.repos,
                                    mem |-> appview.mem,
                                    saved |-> appview.saved]]]

\* Calls of InitKnotServer that can fail once the response is verified.
InitFailures ==
    {"BeginTx", "Register", "RegistrationByDomain", "AddDomain", "AddOwner",
     "Commit", "SavePolicy"}

\* Whether InitKnotServer reaches BeginTx: the key is found, the knot
\* answered 204 and the signature is the mac of "ok" under the key.
InitVerified(domain, ans) ==
    /\ domain # ""
    /\ GetRegistrationKey(domain) # None
    /\ ~ans.err
    /\ ans.status = StatusNoContent
    /\ ~DecodeString(ans.signature).err
    /\ DecodeString(ans.signature).bytes
           = HMAC(GetRegistrationKey(domain), "ok")

\* State.InitKnotServer. failAt: the call that returns an error, if any.
InitKnotServer(domain, ans, failAt, loadFails) ==
    /\ appview.served < MaxCalls
    /\ domain = "" \/ GetRegistrationKey(domain) = None => ans.err
    /\ failAt # None => InitVerified(domain, ans)
    /\ loadFails => InitVerified(domain, ans) /\ failAt # "BeginTx"
    /\ LET in == [domain |-> domain, ans |-> ans, failAt |-> failAt,
                  loadFails |-> loadFails]
           withDomain == [appview EXCEPT !.mem = @ \cup {<<"domain", domain>>}]
           withOwner == [withDomain EXCEPT
                            !.mem = @ \cup {<<"owner", domain, UserDid>>}]
           committed == [withOwner EXCEPT !.registered = @ \cup {domain}]
           saved == [committed EXCEPT !.saved = committed.mem]
           Fails(a) == Handled(Deferred(a, loadFails), "InitKnotServer", in,
                               TRUE, Wrote(StatusInternalServerError, "error"))
       IN appview' =
          IF domain = ""
          THEN Handled(appview, "InitKnotServer", in, FALSE,
                       Wrote(StatusBadRequest, "malformed url"))
          ELSE IF GetRegistrationKey(domain) = None
          THEN Handled(appview, "InitKnotServer", in, FALSE, Wrote(StatusOK, ""))
          ELSE IF ans.err
          THEN Handled(appview, "InitKnotServer", in, FALSE, Wrote(StatusOK, "no dice"))
          ELSE IF ans.status = StatusConflict
          THEN Handled(appview, "InitKnotServer", in, FALSE,
                       Wrote(StatusOK, "already registered, sorry!"))
          ELSE IF ans.status # StatusNoContent
          THEN Handled(appview, "InitKnotServer", in, FALSE, Wrote(StatusOK, "no dice"))
          ELSE IF ~InitVerified(domain, ans)
          THEN Handled(appview, "InitKnotServer", in, FALSE, Wrote(StatusOK, ""))
          ELSE IF failAt = "BeginTx"
          THEN Handled(appview, "InitKnotServer", in, FALSE,
                       Wrote(StatusInternalServerError, "error"))
          ELSE IF failAt \in {"Register", "RegistrationByDomain", "AddDomain"}
          THEN Fails(appview)
          ELSE IF failAt = "AddOwner" THEN Fails(withDomain)
          ELSE IF failAt = "Commit" THEN Fails(withOwner)
          ELSE IF failAt = "SavePolicy" THEN Fails(committed)
          ELSE Handled(Deferred(saved, loadFails), "InitKnotServer", in, TRUE,
                       Wrote(StatusOK, "check success"))
    /\ UNCHANGED <<mergeVars, repoVars, knot, issues, ingest, probe>>

\* The characters a repository name may consist of.
NameChars ==
    {"a", "g", "i", "t", "z", "A", "Z", "0", "9", "-", "_", "."}

\* Repository names of the form, as sequences of characters.
FormNames == {<<>>, <<"a">>, <<"a", " ">>}

\* SignedClient.NewRepo: the request sent to the knot.
SignedClientNewRepo(did, repoName, defaultBranch) ==
    [method |-> "PUT", endpoint |-> "/repo/new",
     body |-> [did |-> did, name |-> repoName,
               default_branch |-> defaultBranch]]

\* Calls of NewRepo that can fail before the knot is asked, and after.
NewRepoEarlyFailures == {"NewSignedClient", "RepoPutRecord", "BeginTx"}
NewRepoLateFailures == {"AddRepo", "enforcer.AddRepo", "Commit", "SavePolicy"}

\* Whether NewRepo (POST) gets as far as creating the signed client: the
\* form is complete, the name is well formed, the user may create repos in
\* the knot, has no repo of that name, and the knot has a registration key.
NewRepoAdmitted(domain, repoName) ==
    /\ domain # ""
    /\ repoName # <<>>
    /\ \A i \in DOMAIN repoName : repoName[i] \in NameChars
    /\ <<"owner", domain, UserDid>> \in appview.mem
    /\ <<UserDid, repoName>> \notin {<<r[1], r[2]>> : r \in appview.repos}
    /\ GetRegistrationKey(domain) # None

\* State.NewRepo, method POST. failAt: the call that returns an error, if
\* any; ans: the knot's answer to the create request.
AppNewRepo(domain, repoName, branch, ans, failAt, loadFails) ==
    /\ appview.served < MaxCalls
    /\ ans.signature = <<>>
    /\ LET asked == NewRepoAdmitted(domain, repoName)
                    /\ failAt \notin NewRepoEarlyFailures
           defaultBranch == IF branch = "" THEN "main" ELSE branch
           in == [domain |-> domain, name |-> repoName, ans |-> ans,
                  failAt |-> failAt, loadFails |-> loadFails,
                  sent |-> IF asked
                           THEN SignedClientNewRepo(UserDid, repoName,
                                                    defaultBranch)
                           ELSE None]
           row == <<UserDid, repoName, domain>>
           withRow == [appview EXCEPT
                          !.mem = @ \cup {<<"repo", UserDid, domain,
                                            <<UserDid, repoName>>>>}]
           committed == [withRow EXCEPT !.repos = @ \cup {row}]
           saved == [committed EXCEPT !.saved = committed.mem]
           Returns(a, out) ==
               Handled(Deferred(a, loadFails), "NewRepo", in, TRUE, out)
       IN /\ failAt # None => NewRepoAdmitted(domain, repoName)
          /\ ~asked => ans.err /\ ~loadFails /\ branch = ""
          /\ appview' =
             IF ~NewRepoAdmitted(domain, repoName)
                \/ failAt \in NewRepoEarlyFailures
             THEN Handled(appview, "NewRepo", in, FALSE, Wrote(StatusOK, "Notice"))
             ELSE IF ans.err \/ ans.status = StatusConflict
             THEN Returns(appview, Wrote(StatusOK, "Notice"))
             ELSE IF failAt = "AddRepo" THEN Returns(appview, Wrote(StatusOK, "Notice"))
             ELSE IF failAt = "enforcer.AddRepo" THEN Returns(appview, Wrote(StatusOK, "Notice"))
             ELSE IF failAt = "Commit"
             THEN Returns(withRow, Wrote(StatusInternalServerError, "error"))
             ELSE IF failAt = "SavePolicy"
             THEN Returns(committed,
                          Wrote(StatusInternalServerError, "error"))
             ELSE Returns(saved,
                          Wrote(StatusOK,
                                IF ans.status = StatusInternalServerError
                                THEN "Notice" ELSE "HxLocation"))
    /\ UNCHANGED <<mergeVars, repoVars, knot, issues, ingest, probe>>

InitAppview ==
    /\ MergeIdle(InitTree) /\ conflictStatus = StatusOK /\ RepoIdle
    /\ appview \in {AppStart({}), AppStart({"k1"})}
    /\ knot = Idle /\ issues = Idle /\ ingest = Idle /\ probe = Idle

NextAppview ==
    \/ \E domain \in Domains, ans \in KnotResponses,
          failAt \in InitFailures \cup {None}, loadFails \in BOOLEAN :
          InitKnotServer(domain, ans, failAt, loadFails)
    \/ \E domain \in Domains, repoName \in FormNames, branch \in {"", "dev"},
          ans \in KnotResponses,
          failAt \in NewRepoEarlyFailures \cup NewRepoLateFailures \cup {None},
          loadFails \in BOOLEAN :
          AppNewRepo(domain, repoName, branch, ans, failAt, loadFails)

SpecAppview == InitAppview /\ [][NextAppview]_vars

\* C26: InitKnotServer registers the domain or changes the policy only when
\* the knot answered 204 with X-Signature the hex of HMAC-SHA256 of "ok"
\* under the registration secret; and when it fails after BeginTx, the
\* registered domains and the policy in memory are as before.
RegisteredOnlyWhenSigned ==
    appview.last.op = "InitKnotServer" =>
        LET in == appview.last.in
            before == appview.last.before IN
        /\ appview.registered # before.registered \/ appview.mem # before.mem
           => /\ ~in.ans.err /\ in.ans.status = StatusNoContent
              /\ in.ans.signature =
                     EncodeToString(HMAC(GetRegistrationKey(in.domain), "ok"))
        /\ appview.last.begun /\ appview.last.out.body # "check success"
           => /\ appview.registered = before.registered
              /\ appview.mem = before.mem

\* C27: NewRepo adds a repo row or saves policy only when the knot answered
\* the create request with 204.
RepoStoredOnlyOn204 ==
    /\ appview.last.op = "NewRepo"
    /\ \/ appview.repos # appview.last.before.repos
       \/ appview.saved # appview.last.before.saved
    => /\ ~appview.last.in.ans.err
       /\ appview.last.in.ans.status = StatusNoContent

\* ------------------------------------------------- the appview's issue numbers

\* NewIssue transactions begun in one behaviour.
MaxIssues == 3

\* Repositories issues are filed against.
IssueRepos == {"x", "y"}

\* The database: next_issue_id of each repo's row of repo_issue_seqs (0: no
\* row) and the rows of issues in the order they were inserted.
EmptyDb == [seqs |-> [r \in IssueRepos |-> 0], table |-> <<>>]

\* A transaction that has not begun.
NoTx ==
    [pc |-> "idle", repo |-> "", work |-> EmptyDb, IssueId |-> 0,
     wrote |-> FALSE, before |-> EmptyDb, after |-> EmptyDb]

\* insert or ignore into repo_issue_seqs (repo_at, next_issue_id) values (?, 1)
InsertOrIgnoreSeq(db, repo) ==
    IF db.seqs[repo] = 0 THEN [db EXCEPT !.seqs[repo] = 1] ELSE db

\* A returning clause that hands back the updated counter itself.
ReturningNext(next) == next

\* returning next_issue_id - 1, evaluated on the updated row.
Returning(next) == next - 1

\* update repo_issue_seqs set next_issue_id = next_issue_id + 1 where repo_at = ?
UpdateSeq(db, repo) == [db EXCEPT !.seqs[repo] = @ + 1]

\* insert into issues (repo_at, owner_did, issue_id, title, body)
InsertIssue(db, repo, owner, id) ==
    [db EXCEPT !.table = Append(@, [repo |-> repo, owner |-> owner, id |-> id])]

\* The ids of the issues of a repo, in the order of the table.
IssueIds(table, repo) ==
    LET F[i \in 0..Len(table)] ==
            IF i = 0 THEN <<>>
            ELSE IF table[i].repo = repo THEN Append(F[i - 1], table[i].id)
            ELSE F[i - 1]
    IN F[Len(table)]

\* The deferred tx.Rollback() of a NewIssue that returns an error: what the
\* transaction wrote is dropped and the write lock released.
Rollback(p) ==
    [issues EXCEPT !.tx[p].pc = "failed",
                   !.tx[p].after = issues.db,
                   !.writer = IF @ = p THEN None ELSE @]

\* A caller begins a transaction and calls NewIssue for the repo.
BeginNewIssue(p, repo) ==
    /\ issues.tx[p].pc \in {"idle", "done", "failed"}
    /\ issues.begun < MaxIssues
    /\ issues' = [issues EXCEPT !.begun = @ + 1,
                                !.tx[p] = [NoTx EXCEPT !.pc = "seq",
                                                       !.repo = repo]]
    /\ UNCHANGED <<mergeVars, repoVars, knot, appview, ingest, probe>>

\* The first statement. It is the transaction's first write and takes the
\* database's write lock; it fails while another transaction holds the lock.
NewIssueSeq(p, fails) ==
    /\ issues.tx[p].pc = "seq"
    /\ issues.writer # None => fails
    /\ issues' =
          IF fails THEN Rollback(p)
          ELSE [issues EXCEPT
                   !.writer = p,
                   !.tx[p].pc = "update",
                   !.tx[p].wrote = TRUE,
                   !.tx[p].before = issues.db,
                   !.tx[p].work = InsertOrIgnoreSeq(issues.db, issues.tx[p].repo)]
    /\ UNCHANGED <<mergeVars, repoVars, knot, appview, ingest, probe>>

\* The second statement, scanned into nextId and stored in issue.IssueId.
NewIssueUpdate(p, fails) ==
    /\ issues.tx[p].pc = "update"
    /\ issues' =
          IF fails THEN Rollback(p)
          ELSE LET t == issues.tx[p]
                   w == UpdateSeq(t.work, t.repo) IN
               [issues EXCEPT !.tx[p].pc = "insert",
                              !.tx[p].work = w,
                              !.tx[p].IssueId = Returning(w.seqs[t.repo])]
    /\ UNCHANGED <<mergeVars, repoVars, knot, appview, ingest, probe>>

\* The third statement.
NewIssueInsert(p, fails) ==
    /\ issues.tx[p].pc = "insert"
    /\ issues' =
          IF fails THEN Rollback(p)
          ELSE LET t == issues.tx[p] IN
               [issues EXCEPT !.tx[p].pc = "commit",
                              !.tx[p].work =
                                  InsertIssue(t.work, t.repo, p, t.IssueId)]
    /\ UNCHANGED <<mergeVars, repoVars, knot, appview, ingest, probe>>

\* tx.Commit().
NewIssueCommit(p, fails) ==
    /\ issues.tx[p].pc = "commit"
    /\ issues' =
          IF fails THEN Rollback(p)
          ELSE [issues EXCEPT !.tx[p].pc = "done",
                              !.tx[p].after = issues.tx[p].work,
                              !.db = issues.tx[p].work,
                              !.writer = None]
    /\ UNCHANGED <<mergeVars, repoVars, knot, appview, ingest, probe>>

\* GetIssueId outside a transaction: it reads the committed row, and fails
\* when the repo has none. ids: the repo's issues when it read.
GetIssueId(repo) ==
    /\ issues' =
          [issues EXCEPT !.got =
              [op |-> "GetIssueId", repo |-> repo,
               err |-> issues.db.seqs[repo] = 0,
               issueId |-> issues.db.seqs[repo] - 1,
               ids |-> IssueIds(issues.db.table, repo)]]
    /\ UNCHANGED <<mergeVars, repoVars, knot, appview, ingest, probe>>

InitIssues ==
    /\ MergeIdle(InitTree) /\ conflictStatus = StatusOK /\ RepoIdle
    /\ issues = [db |-> EmptyDb, writer |-> None, begun |-> 0,
                 tx |-> [p \in Procs |-> NoTx], got |-> Idle]
    /\ knot = Idle /\ appview = Idle /\ ingest = Idle /\ probe = Idle

NextIssues ==
    \/ \E p \in Procs, repo \in IssueRepos : BeginNewIssue(p, repo)
    \/ \E p \in Procs, fails \in BOOLEAN : NewIssueSeq(p, fails)
    \/ \E p \in Procs, fails \in BOOLEAN : NewIssueUpdate(p, fails)
    \/ \E p \in Procs, fails \in BOOLEAN : NewIssueInsert(p, fails)
    \/ \E p \in Procs, fails \in BOOLEAN : NewIssueCommit(p, fails)
    \/ \E repo \in IssueRepos : GetIssueId(repo)

SpecIssues == InitIssues /\ [][NextIssues]_vars

\* C28: the committed issues of each repo carry the ids 1..n in the order
\* they were committed; a NewIssue that failed left the database as it was
\* when the transaction first wrote; and GetIssueId returns the id of the
\* issue committed last.
IssueIdsGapFree ==
    /\ \A r \in IssueRepos :
          LET ids == IssueIds(issues.db.table, r) IN
          /\ \A i \in DOMAIN ids : ids[i] = i
          /\ issues.db.seqs[r] = IF ids = <<>> THEN 0 ELSE Len(ids) + 1
    /\ \A p \in Procs :
          issues.tx[p].pc = "failed" /\ issues.tx[p].wrote =>
              issues.tx[p].after = issues.tx[p].before
    /\ issues.got.op = "GetIssueId" /\ ~issues.got.err =>
          /\ issues.got.ids # <<>>
          /\ issues.got.issueId = issues.got.ids[Len(issues.got.ids)]

\* Two workers have committed the first two issues of a repo, a NewIssue
\* failed after it wrote, and GetIssueId read the second id.
IssuesCommittedAndFailed ==
    /\ \E r \in IssueRepos :
          /\ Len(IssueIds(issues.db.table, r)) = 2
          /\ {issues.db.table[i].owner : i \in DOMAIN issues.db.table} = Procs
          /\ issues.got.op = "GetIssueId" /\ issues.got.repo = r
          /\ issues.got.issueId = 2
    /\ \E p \in Procs : issues.tx[p].pc = "failed" /\ issues.tx[p].wrote

\* ------------------------------------------------- the jetstream ingester

\* Events of the stream. An event that is not a commit carries no commit;
\* a commit names a collection and carries a record: one that unmarshals,
\* one that does not, or (for a star) one whose subject is no AT URI.
JetEvents ==
    [Kind : {"account"}, Collection : {""}, Record : {""},
     TimeUS : {1, 2, MaxInt}]
    \cup [Kind : {"commit"},
          Collection : {"sh.tangled.graph.follow", "sh.tangled.feed.star"},
          Record : {"valid", "invalid json"}, TimeUS : {1, 2, MaxInt}]
    \cup [Kind : {"commit"}, Collection : {"sh.tangled.feed.star"},
          Record : {"invalid subject"}, TimeUS : {1, 2, MaxInt}]
    \cup [Kind : {"commit"}, Collection : {"app.bsky.feed.post"},
          Record : {"valid"}, TimeUS : {1, 2, MaxInt}]

\* Whether the body of the ingester calls db.AddFollow or db.AddStar for e.
ReachesDb(e) ==
    /\ e.Kind = "commit"
    /\ e.Collection \in {"sh.tangled.graph.follow", "sh.tangled.feed.star"}
    /\ e.Record = "valid"

\* The body of the ingester: the error it returns and the rows it adds.
Ingested(e, dbFails) ==
    IF e.Kind # "commit" THEN [err |-> Nil, rows |-> {}]
    ELSE IF e.Collection \notin
                {"sh.tangled.graph.follow", "sh.tangled.feed.star"}
    THEN [err |-> Nil, rows |-> {}]
    ELSE IF e.Record # "valid"
    THEN [err |-> [Nil EXCEPT !.kind = "invalid record"], rows |-> {}]
    ELSE IF dbFails
    THEN [err |-> [Nil EXCEPT !.kind = "failed to add follow to db"],
          rows |-> {}]
    ELSE [err |-> Nil, rows |-> {<<e.Collection, e.TimeUS>>}]

\* The cursor an event leaves behind when it is copied instead of advanced.
LastTimeUsOfEvent(e) == e.TimeUS

\* lastTimeUs := eventTime + 1, in the width of the int.
LastTimeUs(e) == Wrap(e.TimeUS + 1)

\* The ingester on event e. The deferred function saves the cursor; when
\* that fails the error is assigned to a variable of its own if statement,
\* and the value the body returned is the result. before: the cursor when
\* the event arrived.
jetstreamIngester(e, dbFails, saveFails) ==
    /\ ingest.handled < MaxCalls
    /\ dbFails => ReachesDb(e)
    /\ ingest' =
          [cursor |-> IF saveFails THEN ingest.cursor ELSE LastTimeUs(e),
           rows |-> ingest.rows \cup Ingested(e, dbFails).rows,
           handled |-> ingest.handled + 1,
           last |-> [op |-> "ingest", e |-> e, dbFails |-> dbFails,
                     saveFails |-> saveFails, before |-> ingest.cursor,
                     err |-> Ingested(e, dbFails).err]]
    /\ UNCHANGED <<mergeVars, repoVars, knot, appview, issues, probe>>

InitIngest ==
    /\ MergeIdle(InitTree) /\ conflictStatus = StatusOK /\ RepoIdle
    /\ ingest = [cursor |-> 0, rows |-> {}, handled |-> 0, last |-> Idle]
    /\ knot = Idle /\ appview = Idle /\ issues = Idle /\ probe = Idle

NextIngest ==
    \E e \in JetEvents, dbFails \in BOOLEAN, saveFails \in BOOLEAN :
        jetstreamIngester(e, dbFails, saveFails)

SpecIngest == InitIngest /\ [][NextIngest]_vars

MaxNameLen == 5

\* Characters of the names: letters, the dot, both slashes and a rune
\* outside ASCII.
ProbeChars == {"a", "g", "i", "t", ".", "/", "\\", "U+00E9"}

ProbeNames == UNION {[1..n -> ProbeChars] : n \in 0..MaxNameLen}

\* strings.Contains for a substring that is not empty.
Contains(str, substr) ==
    \E i \in 1..(Len(str) - Len(substr) + 1) :
        SubSeq(str, i, i + Len(substr) - 1) = substr

\* validateRepoName: Nil, or the error of the first check that fails.
validateRepoName(name) ==
    IF \/ name = <<".">> \/ name = <<".", ".">>
       \/ Contains(name, <<"/">>) \/ Contains(name, <<"\\">>)
    THEN [Nil EXCEPT !.kind = "invalid path characters"]
    ELSE IF \/ Contains(name, <<".", "/">>) \/ Contains(name, <<".", ".", "/">>)
            \/ IsPrefix(<<".">>, name) \/ HasSuffix(name, <<".">>)
    THEN [Nil EXCEPT !.kind = "invalid path sequence"]
    ELSE IF \E i \in DOMAIN name : name[i] \notin NameChars
    THEN [Nil EXCEPT !.kind = "invalid characters"]
    ELSE IF Contains(name, <<".", ".">>)
    THEN [Nil EXCEPT !.kind = "sequential dots"]
    ELSE Nil

\* A stripGitExt that trims "git" and leaves the dot.
stripGitExtKeepsDot(name) == TrimSuffix(name, <<"g", "i", "t">>)

\* stripGitExt: strings.TrimSuffix(name, ".git").
stripGitExt(name) == TrimSuffix(name, <<".", "g", "i", "t">>)

\* A name that nothing has been applied to.
Probe(name) ==
    [pc |-> "name", name |-> name, err |-> Nil, stripped |-> <<>>,
     strippedErr |-> Nil, repoName |-> <<>>]

\* validateRepoName applied to the name.
ProbeValidate ==
    /\ probe.pc = "name"
    /\ probe' = [probe EXCEPT !.pc = "validated",
                              !.err = validateRepoName(probe.name)]
    /\ UNCHANGED <<mergeVars, repoVars, knot, appview, issues, ingest>>

\* stripGitExt applied to an accepted name, and validateRepoName to the
\* result.
ProbeStrip ==
    /\ probe.pc = "validated" /\ probe.err = Nil
    /\ LET stripped == stripGitExt(probe.name) IN
       probe' = [probe EXCEPT !.pc = "stripped",
                              !.stripped = stripped,
                              !.strippedErr = validateRepoName(stripped)]
    /\ UNCHANGED <<mergeVars, repoVars, knot, appview, issues, ingest>>

\* NewRepo on the form value name: a notice for the empty name and for a
\* name validateRepoName rejects, else repoName = stripGitExt(repoName).
NewRepoName ==
    /\ probe.pc = "name"
    /\ probe' =
          IF probe.name = <<>> \/ validateRepoName(probe.name) # Nil
          THEN [probe EXCEPT !.pc = "Notice"]
          ELSE [probe EXCEPT !.pc = "repoName",
                             !.repoName = stripGitExt(probe.name)]
    /\ UNCHANGED <<mergeVars, repoVars, knot, appview, issues, ingest>>

InitProbe ==
    /\ MergeIdle(InitTree) /\ conflictStatus = StatusOK /\ RepoIdle
    /\ probe \in {Probe(name) : name \in ProbeNames}
    /\ knot = Idle /\ appview = Idle /\ issues = Idle /\ ingest = Idle

NextProbe == ProbeValidate \/ ProbeStrip \/ NewRepoName

SpecProbe == InitProbe /\ [][NextProbe]_vars

\* A name of allowed characters that neither begins nor ends with a dot and
\* has no two dots in a row.
WellFormedName(name) ==
    /\ \A i \in DOMAIN name :
          /\ name[i] \in NameChars
          /\ name[i] \notin {"/", "\\"}
    /\ name # <<>> => name[1] # "." /\ name[Len(name)] # "."
    /\ \A i \in 1..(Len(name) - 1) : ~(name[i] = "." /\ name[i + 1] = ".")

\* C30: a name validateRepoName accepts is well formed, and stripGitExt of
\* an accepted name is not empty and is accepted too.
AcceptedNamesStripAccepted ==
    /\ probe.pc \in {"validated", "stripped"} /\ probe.err = Nil
       => WellFormedName(probe.name)
    /\ probe.pc = "stripped"
       => probe.stripped # <<>> /\ probe.strippedErr = Nil

\* C30, amended: a name validateRepoName accepts is well formed; stripGitExt
\* of an accepted name that is not empty is not empty and is accepted too;
\* and the repoName NewRepo goes on with is not empty and accepted.
NonEmptyAcceptedNamesStripAccepted ==
    /\ probe.pc \in {"validated", "stripped"} /\ probe.err = Nil
       => WellFormedName(probe.name)
    /\ probe.pc = "stripped" /\ probe.name # <<>>
       => probe.stripped # <<>> /\ probe.strippedErr = Nil
    /\ probe.pc = "repoName"
       => /\ probe.repoName # <<>>
          /\ WellFormedName(probe.repoName)
          /\ validateRepoName(probe.repoName) = Nil

\* The accepted name a.git has been stripped to a.
GitExtStripped ==
    /\ probe.pc = "stripped"
    /\ probe.name = <<"a", ".", "g", "i", "t">>
    /\ probe.stripped = <<"a">>
    /\ probe.strippedErr = Nil

====
